---------------------------- MODULE Spec2Model ----------------------------
(***************************************************************************)
(* A model of MapPy's analysis core:                                       *)
(*   - src/src/utils/observers.py : Subject (attach / detach / notify),    *)
(*     DataManager (the mutators and the filtered views);                  *)
(*   - src/src/data/data_processor.py : the aggregation strategies;        *)
(*   - src/src/data/models.py : CountryData / RegionData.                  *)
(*                                                                         *)
(* Subject.notify is a Python for-loop over the live list _observers, and  *)
(* a listener may call back into the manager from inside update().  The    *)
(* loop is therefore modelled step by step: `stack` holds one frame per    *)
(* running notify() call (its event, its payload and the position of its   *)
(* list iterator), the innermost call last.  Python lists and dicts are    *)
(* objects: `handles` records which manager fields are bound to an object  *)
(* that a component outside the manager holds a reference to.              *)
(*                                                                         *)
(* DataManager._timestamp (time.time()) is not modelled: no operation      *)
(* reads it back into the fields modelled here.                            *)
(***************************************************************************)
EXTENDS Integers, Sequences, FiniteSets, TLC

VARIABLES
    observers,           \* Subject._observers
    env_data,            \* DataManager.env_data
    tran_data,           \* DataManager.tran_data
    year_range,          \* DataManager.year_range
    selected_countries,  \* DataManager.selected_countries
    selected_regions,    \* DataManager.selected_regions
    data_filter,         \* DataManager.data_filter
    stack,               \* the running notify() calls, innermost last
    handles,             \* fields whose object is referenced from outside
    lastOp,              \* history: the most recent call made by a client
    outcome,             \* history: "idle" | "running" | "returned"
    snapshot,            \* history: _observers when that call was made
    log,                 \* history: the update() calls made during it
    emitted,             \* history: the notify() calls made during it
    reent,               \* history: re-entrant calls made by listeners in it
    ret,                 \* history: the value that call returned
    ncalls,              \* history: mutator calls made by clients so far
    raises,              \* history: exceptions raised by listeners in it
    strategy,            \* aggregation: the strategy that ran, or "none"
    in_data,             \* aggregation: the `data` argument of process
    in_range,            \* aggregation: the `year_range` argument
    result,              \* aggregation: what process returned
    options,             \* aggregation: constructor and keyword arguments
    error,               \* aggregation: the exception process raised
    sheet,               \* parsing: the grid handed to _parse_data
    loader,              \* parsing: the loader that parsed it, or "none"
    data_type,           \* loading: the argument of create_loader
    file,                \* loading: what file_path names
    created,             \* loading: what create_loader returned or raised
    loaded,              \* loading: "none", "returned", or what load raised
    component_observers, \* StreamlitObserverBridge.component_observers
    made                 \* bridge: UIComponentObserver objects created so far

fields == <<env_data, tran_data, year_range, selected_countries,
            selected_regions, data_filter>>
history == <<lastOp, outcome, snapshot, log, emitted, reent, ret, ncalls,
             raises>>
aggregation == <<strategy, in_data, in_range, result, options, error>>
parsing == <<sheet, loader>>
loading == <<data_type, file, created, loaded>>
offline == <<aggregation, parsing, loading>>
bridge == <<component_observers, made>>
vars == <<observers, fields, stack, handles, history, offline, bridge>>

-----------------------------------------------------------------------------
(* Bounds *)

NumListeners == 3
MaxDepth == 2
MaxReentrant == 1
MaxRaises == 1
MaxCalls == 1
NumYears == 2
MaxValue == 1

Listeners == 1..NumListeners

None == "None"

Range(s) == {s[i] : i \in 1..Len(s)}

-----------------------------------------------------------------------------
(* Entities: src/src/data/models.py *)

CountryData(code, name, series) ==
    [country_code |-> code, country_name |-> name, data_by_year |-> series,
     data_type |-> "environmental"]

RegionData(code, name, country, level, series) ==
    [region_code |-> code, region_name |-> name, country_code |-> country,
     nuts_level |-> level, data_by_year |-> series]

Poland == CountryData("PL", "Poland", (2018 :> 100) @@ (2019 :> 110))
Germany == CountryData("DE", "Germany", (2018 :> 200))
France == CountryData("FR", "France", (2019 :> 190))

PolandRegion == RegionData("PL", "Polska", "PL", 0, (2018 :> 900))
Mazowieckie == RegionData("PL1", "Mazowieckie", "PL", 1, (2018 :> 500))
Baden == RegionData("DE1", "Baden", "DE", 1, (2018 :> 1000))
Deutschland == RegionData("DE", "Deutschland", "DE", 0, (2019 :> 700))

(* str.upper() on the country codes the model uses *)
Upper(s) ==
    CASE s = "pl" -> "PL"
      [] s = "de" -> "DE"
      [] OTHER -> s

-----------------------------------------------------------------------------
(* Subject: src/src/utils/observers.py lines 16-41 *)

RemoveFirst(s, x) ==
    LET i == CHOOSE k \in 1..Len(s) :
                 s[k] = x /\ \A j \in 1..(k - 1) : s[j] # x
    IN  SubSeq(s, 1, i - 1) \o SubSeq(s, i + 1, Len(s))

(* attach without the membership test of line 24 *)
attach_unchecked(obs, observer) == Append(obs, observer)

attach(obs, observer) ==
    IF observer \notin Range(obs) THEN Append(obs, observer) ELSE obs

detach(obs, observer) ==
    IF observer \in Range(obs) THEN RemoveFirst(obs, observer) ELSE obs

(* notify() up to its first look at the list: a frame for the for-loop,   *)
(* pushed on the stack `stk` of the caller.                               *)
notify(event_type, data, stk) ==
    /\ stack' = Append(stk, [event |-> event_type, data |-> data, idx |-> 1])
    /\ emitted' = IF stk = <<>> THEN <<event_type>>
                   ELSE Append(emitted, event_type)

Top == stack[Len(stack)]

Advance(stk) == [stk EXCEPT ![Len(stk)].idx = @ + 1]


-----------------------------------------------------------------------------
(* DataManager: src/src/utils/observers.py lines 94-216 *)

Merge(d, m) ==
    [k \in (DOMAIN d) \cup (DOMAIN m) |-> IF k \in DOMAIN m THEN m[k] ELSE d[k]]

Take(s, n) == SubSeq(s, 1, IF Len(s) < n THEN Len(s) ELSE n)

Map(s, Op(_)) == [i \in 1..Len(s) |-> Op(s[i])]

RECURSIVE Sorted(_)
Sorted(S) ==
    IF S = {} THEN <<>>
    ELSE LET m == CHOOSE x \in S : \A y \in S : x <= y
         IN  <<m>> \o Sorted(S \ {m})

CountryName(c) == c.country_name

(* Each mutator is the method up to the point where notify() has set up   *)
(* its loop: the assignment, then the payload, then the frame.  A field    *)
(* that is assigned is bound to a new object, so a reference to the old    *)
(* one no longer reaches the manager.                                      *)

load_environmental_data(data, stk) ==
    /\ env_data' = data
    /\ handles' = handles \ {"env_data"}
    /\ UNCHANGED <<tran_data, year_range, selected_countries,
                   selected_regions, data_filter>>
    /\ notify("env_data_loaded",
              [count |-> Len(data),
               countries |-> Map(Take(data, 5), CountryName)], stk)

load_transport_data(data, stk) ==
    /\ tran_data' = data
    /\ handles' = handles \ {"tran_data"}
    /\ UNCHANGED <<env_data, year_range, selected_countries,
                   selected_regions, data_filter>>
    /\ notify("tran_data_loaded",
              [count |-> Len(data),
               countries |-> Cardinality({r.country_code : r \in Range(data)}),
               nuts_levels |-> Sorted({r.nuts_level : r \in Range(data)})],
              stk)

(* set_year_range that notifies without the assignment of line 134 *)
set_year_range_unassigned(yr, stk) ==
    /\ UNCHANGED <<fields, handles>>
    /\ notify("year_range_changed",
              [old_range |-> year_range, new_range |-> yr,
               span |-> yr[2] - yr[1] + 1], stk)

set_year_range(yr, stk) ==
    /\ year_range' = yr
    /\ UNCHANGED <<env_data, tran_data, selected_countries,
                   selected_regions, data_filter, handles>>
    /\ notify("year_range_changed",
              [old_range |-> year_range, new_range |-> yr,
               span |-> yr[2] - yr[1] + 1], stk)

(* 'new_selection' is the list object the field is bound to. *)
set_selected_countries(countries, stk) ==
    /\ selected_countries' = countries
    /\ handles' = handles \ {"selected_countries"}
    /\ UNCHANGED <<env_data, tran_data, year_range, selected_regions,
                   data_filter>>
    /\ notify("countries_selected",
              [old_selection |-> selected_countries,
               new_selection |-> [ref |-> "selected_countries"],
               count |-> Len(countries)], stk)

set_selected_regions(regions, stk) ==
    /\ selected_regions' = regions
    /\ handles' = handles \ {"selected_regions"}
    /\ UNCHANGED <<env_data, tran_data, year_range, selected_countries,
                   data_filter>>
    /\ notify("regions_selected",
              [old_selection |-> selected_regions,
               new_selection |-> [ref |-> "selected_regions"],
               count |-> Len(regions)], stk)

(* dict.update() changes the dict in place: the field keeps its object,   *)
(* and 'new_filter' is that object.                                        *)
apply_filter(filter_criteria, stk) ==
    /\ data_filter' = Merge(data_filter, filter_criteria)
    /\ UNCHANGED <<env_data, tran_data, year_range, selected_countries,
                   selected_regions, handles>>
    /\ notify("filter_applied",
              [old_filter |-> data_filter,
               new_filter |-> [ref |-> "data_filter"],
               criteria |-> filter_criteria], stk)

clear_filters(stk) ==
    /\ data_filter' = <<>>
    /\ handles' = handles \ {"data_filter"}
    /\ UNCHANGED <<env_data, tran_data, year_range, selected_countries,
                   selected_regions>>
    /\ notify("filters_cleared", [old_filter |-> data_filter], stk)

(* get_filtered_env_data that takes an empty selection for a filter *)
get_filtered_env_data_always ==
    SelectSeq(env_data, LAMBDA c : c.country_name \in Range(selected_countries))

get_filtered_env_data ==
    LET filtered_data == env_data
    IN  IF selected_countries # <<>>
        THEN SelectSeq(filtered_data,
                 LAMBDA c : c.country_name \in Range(selected_countries))
        ELSE filtered_data

(* get_filtered_tran_data that tests the level for truth, not for presence *)
get_filtered_tran_data_truthy ==
    LET d0 == tran_data
        d1 == IF selected_regions # <<>>
              THEN SelectSeq(d0,
                       LAMBDA r : r.region_name \in Range(selected_regions))
              ELSE d0
        d2 == IF "country_code" \in DOMAIN data_filter
              THEN SelectSeq(d1,
                       LAMBDA r : r.country_code
                                      = Upper(data_filter["country_code"]))
              ELSE d1
        d3 == IF "nuts_level" \in DOMAIN data_filter
                 /\ data_filter["nuts_level"] # 0
              THEN SelectSeq(d2,
                       LAMBDA r : r.nuts_level = data_filter["nuts_level"])
              ELSE d2
    IN  d3

get_filtered_tran_data ==
    LET d0 == tran_data
        d1 == IF selected_regions # <<>>
              THEN SelectSeq(d0,
                       LAMBDA r : r.region_name \in Range(selected_regions))
              ELSE d0
        d2 == IF "country_code" \in DOMAIN data_filter
              THEN SelectSeq(d1,
                       LAMBDA r : r.country_code
                                      = Upper(data_filter["country_code"]))
              ELSE d1
        d3 == IF "nuts_level" \in DOMAIN data_filter
              THEN SelectSeq(d2,
                       LAMBDA r : r.nuts_level = data_filter["nuts_level"])
              ELSE d2
    IN  d3

(* The field an event reports on, as a listener reads it from the manager *)
FieldOf(event_type) ==
    CASE event_type = "env_data_loaded" -> env_data
      [] event_type = "tran_data_loaded" -> tran_data
      [] event_type = "year_range_changed" -> year_range
      [] event_type = "countries_selected" -> selected_countries
      [] event_type = "regions_selected" -> selected_regions
      [] event_type = "filter_applied" -> data_filter
      [] event_type = "filters_cleared" -> data_filter

(* The manager-owned objects a payload refers to *)
PayloadRefs(event_type) ==
    CASE event_type = "countries_selected" -> {"selected_countries"}
      [] event_type = "regions_selected" -> {"selected_regions"}
      [] event_type = "filter_applied" -> {"data_filter"}
      [] OTHER -> {}

-----------------------------------------------------------------------------
(* Calls made by a client of the manager (no notify() is running) *)

Started(name, arg, old) ==
    /\ lastOp' = [name |-> name, arg |-> arg, old |-> old]
    /\ snapshot' = observers
    /\ log' = <<>>
    /\ reent' = 0
    /\ raises' = 0

(* A call <<method, argument>> of a mutator, made with notify() frames    *)
(* `stk` below it.                                                         *)
Mutate(c, stk) ==
    \/ c[1] = "load_environmental_data" /\ load_environmental_data(c[2], stk)
    \/ c[1] = "load_transport_data" /\ load_transport_data(c[2], stk)
    \/ c[1] = "set_year_range" /\ set_year_range(c[2], stk)
    \/ c[1] = "set_selected_countries" /\ set_selected_countries(c[2], stk)
    \/ c[1] = "set_selected_regions" /\ set_selected_regions(c[2], stk)
    \/ c[1] = "apply_filter" /\ apply_filter(c[2], stk)
    \/ c[1] = "clear_filters" /\ clear_filters(stk)

EventOf(method) ==
    CASE method = "load_environmental_data" -> "env_data_loaded"
      [] method = "load_transport_data" -> "tran_data_loaded"
      [] method = "set_year_range" -> "year_range_changed"
      [] method = "set_selected_countries" -> "countries_selected"
      [] method = "set_selected_regions" -> "regions_selected"
      [] method = "apply_filter" -> "filter_applied"
      [] method = "clear_filters" -> "filters_cleared"

Mutators ==
    {"load_environmental_data", "load_transport_data", "set_year_range",
     "set_selected_countries", "set_selected_regions", "apply_filter",
     "clear_filters"}

ClientCall(c) ==
    /\ stack = <<>>
    /\ Mutate(c, <<>>)
    /\ Started(c[1], c[2], FieldOf(EventOf(c[1])))
    /\ outcome' = "running"
    /\ ret' = None
    /\ UNCHANGED <<observers, offline, bridge>>

(* The model counts the mutator calls of clients up to MaxCalls *)
Counted(call) == ncalls < MaxCalls /\ ncalls' = ncalls + 1 /\ call

Uncounted(call) == ncalls' = ncalls /\ call

ClientAttach(o) ==
    /\ stack = <<>>
    /\ observers' = attach(observers, o)
    /\ Started("attach", o, None)
    /\ ret' = None
    /\ outcome' = "returned"
    /\ emitted' = <<>>
    /\ UNCHANGED <<fields, stack, handles, ncalls, offline, bridge>>

ClientDetach(o) ==
    /\ stack = <<>>
    /\ observers' = detach(observers, o)
    /\ Started("detach", o, None)
    /\ ret' = None
    /\ outcome' = "returned"
    /\ emitted' = <<>>
    /\ UNCHANGED <<fields, stack, handles, ncalls, offline, bridge>>

(* The list object is returned itself when nothing narrows it (lines 191, *)
(* 197 and 201, 216); a list comprehension builds a new list.             *)
ClientGetFilteredEnv ==
    /\ stack = <<>>
    /\ Started("get_filtered_env_data", None, None)
    /\ ret' = get_filtered_env_data
    /\ handles' = IF selected_countries # <<>> THEN handles
                  ELSE handles \cup {"env_data"}
    /\ outcome' = "returned"
    /\ emitted' = <<>>
    /\ UNCHANGED <<observers, fields, stack, ncalls, offline, bridge>>

ClientGetFilteredTran ==
    /\ stack = <<>>
    /\ Started("get_filtered_tran_data", None, None)
    /\ ret' = get_filtered_tran_data
    /\ handles' = IF \/ selected_regions # <<>>
                     \/ "country_code" \in DOMAIN data_filter
                     \/ "nuts_level" \in DOMAIN data_filter
                  THEN handles
                  ELSE handles \cup {"tran_data"}
    /\ outcome' = "returned"
    /\ emitted' = <<>>
    /\ UNCHANGED <<observers, fields, stack, ncalls, offline, bridge>>

(* A component that holds a reference to the object of field `h` empties  *)
(* it: list.clear() or dict.clear().                                       *)
Cleared(h, name, value) == IF h = name THEN <<>> ELSE value

HolderClears(h) ==
    /\ stack = <<>>
    /\ h \in handles
    /\ env_data' = Cleared(h, "env_data", env_data)
    /\ tran_data' = Cleared(h, "tran_data", tran_data)
    /\ selected_countries' = Cleared(h, "selected_countries", selected_countries)
    /\ selected_regions' = Cleared(h, "selected_regions", selected_regions)
    /\ data_filter' = Cleared(h, "data_filter", data_filter)
    /\ UNCHANGED year_range
    /\ Started("holder_clears", h, fields)
    /\ ret' = None
    /\ outcome' = "returned"
    /\ emitted' = <<>>
    /\ UNCHANGED <<observers, stack, handles, ncalls, offline, bridge>>

-----------------------------------------------------------------------------
(* Subject.notify, lines 37-41: one iteration of the for-loop.  The list   *)
(* iterator reads _observers[idx] if idx is still inside the list as it    *)
(* is now, and the loop ends otherwise.                                    *)

CanUpdate == stack # <<>> /\ Top.idx <= Len(observers)

(* What the history keeps of one update() call: the listener, the event, *)
(* the manager field it reads, whether it raised, and the call it made    *)
(* on the manager (<<"none", 0>> if it made none).                         *)
Update(exc, did) ==
    log' = Append(log, [to |-> observers[Top.idx], event |-> Top.event,
                        seen |-> FieldOf(Top.event), depth |-> Len(stack),
                        raised |-> exc, did |-> did])

Nothing == <<"none", 0>>

(* update() returns *)
UpdateReturns ==
    /\ CanUpdate
    /\ Update(FALSE, Nothing)
    /\ stack' = Advance(stack)
    /\ UNCHANGED <<observers, fields, handles, lastOp, outcome, snapshot,
                   emitted, reent, ret, ncalls,
                   raises, offline, bridge>>

(* update() raises and nothing catches it: notify() and the mutator are  *)
(* left by the exception                                                  *)
UpdateRaisesUncaught ==
    /\ CanUpdate
    /\ raises < MaxRaises
    /\ Update(TRUE, Nothing)
    /\ stack' = <<>>
    /\ outcome' = "raised"
    /\ raises' = raises + 1
    /\ UNCHANGED <<observers, fields, handles, lastOp, snapshot,
                   emitted, reent, ret, ncalls, offline, bridge>>

(* update() raises an Exception, which line 40 catches *)
UpdateRaises ==
    /\ CanUpdate
    /\ raises < MaxRaises
    /\ Update(TRUE, Nothing)
    /\ stack' = Advance(stack)
    /\ raises' = raises + 1
    /\ UNCHANGED <<observers, fields, handles, lastOp, outcome, snapshot,
                   emitted, reent, ret, ncalls, offline, bridge>>

(* update() keeps the objects its payload refers to *)
UpdateKeepsPayload ==
    /\ CanUpdate
    /\ PayloadRefs(Top.event) # {}
    /\ Update(FALSE, Nothing)
    /\ stack' = Advance(stack)
    /\ handles' = handles \cup PayloadRefs(Top.event)
    /\ UNCHANGED <<observers, fields, lastOp, outcome, snapshot,
                   emitted, reent, ret, ncalls,
                   raises, offline, bridge>>

(* update() calls detach(o) on the manager that is notifying it *)
UpdateDetaches(o) ==
    /\ CanUpdate
    /\ reent < MaxReentrant
    /\ Update(FALSE, <<"detach", o>>)
    /\ stack' = Advance(stack)
    /\ observers' = detach(observers, o)
    /\ reent' = reent + 1
    /\ UNCHANGED <<fields, handles, lastOp, outcome, snapshot, emitted, ret,
                   ncalls,
                   raises, offline, bridge>>

(* update() calls attach(o) on the manager that is notifying it *)
UpdateAttaches(o) ==
    /\ CanUpdate
    /\ reent < MaxReentrant
    /\ Update(FALSE, <<"attach", o>>)
    /\ stack' = Advance(stack)
    /\ observers' = attach(observers, o)
    /\ reent' = reent + 1
    /\ UNCHANGED <<fields, handles, lastOp, outcome, snapshot, emitted, ret,
                   ncalls,
                   raises, offline, bridge>>

(* update() calls a mutator of the manager that is notifying it *)
UpdateCallsMutator(c) ==
    /\ CanUpdate
    /\ reent < MaxReentrant
    /\ Len(stack) < MaxDepth
    /\ Update(FALSE, <<"call", c[1]>>)
    /\ Mutate(c, Advance(stack))
    /\ reent' = reent + 1
    /\ UNCHANGED <<observers, lastOp, outcome, snapshot, ret, ncalls,
                   raises, offline, bridge>>

(* The iterator is exhausted: notify() returns, and with it the mutator *)
NotifyReturns ==
    /\ stack # <<>>
    /\ Top.idx > Len(observers)
    /\ stack' = SubSeq(stack, 1, Len(stack) - 1)
    /\ outcome' = IF Len(stack) = 1 THEN "returned" ELSE outcome
    /\ UNCHANGED <<observers, fields, handles, lastOp, snapshot, log,
                   emitted, reent, ret, ncalls,
                   raises, offline, bridge>>

-----------------------------------------------------------------------------
(* The manager and its listeners *)

EnvArgs == {<<Poland, Germany>>}
TranArgs == {<<Mazowieckie, Baden>>}
YearArgs == {<<2019, 2021>>, <<2020, 2022>>}
CountryArgs == {<<"Poland">>}
RegionArgs == {<<"Mazowieckie">>}
FilterArgs == {[country_code |-> "PL"], [nuts_level |-> 1]}

NestedCalls ==
    ({"load_environmental_data"} \X EnvArgs)
        \cup ({"load_transport_data"} \X TranArgs)
        \cup ({"set_year_range"} \X YearArgs)
        \cup ({"set_selected_countries"} \X CountryArgs)
        \cup ({"set_selected_regions"} \X RegionArgs)
        \cup ({"apply_filter"} \X FilterArgs)
        \cup {<<"clear_filters", None>>}

(* StreamlitObserverBridge.__init__, line 249 *)
NoComponents ==
    /\ component_observers = <<>>
    /\ made = 0

(* Subject.__init__ and DataManager.__init__, and an empty history *)
Constructed ==
    /\ NoComponents
    /\ observers = <<>>
    /\ env_data = <<>>
    /\ tran_data = <<>>
    /\ year_range = <<2018, 2022>>
    /\ selected_countries = <<>>
    /\ selected_regions = <<>>
    /\ data_filter = <<>>
    /\ stack = <<>>
    /\ handles = {}
    /\ lastOp = [name |-> "__init__", arg |-> None, old |-> None]
    /\ outcome = "idle"
    /\ snapshot = <<>>
    /\ log = <<>>
    /\ emitted = <<>>
    /\ reent = 0
    /\ ret = None
    /\ ncalls = 0
    /\ raises = 0

(* The defaults of TopNStrategy.__init__ and of the keyword arguments of   *)
(* RegionAggregationStrategy.process; an optional argument is <<>> for    *)
(* None and <<v>> for the value v.                                        *)
NoOptions ==
    [n |-> 10, sort_by |-> "total", country_filter |-> <<>>,
     nuts_level |-> <<>>]

NoSheet == [header |-> <<>>, rows |-> <<>>]

(* No strategy has run, no loader has parsed *)
Unprocessed ==
    /\ strategy = "none"
    /\ result = <<>>
    /\ options = NoOptions
    /\ error = "none"

Unparsed ==
    /\ sheet = NoSheet
    /\ loader = "none"

NoFile == [state |-> "missing", df |-> NoSheet]

(* No loader has been created, no file has been loaded *)
Unloaded ==
    /\ data_type = <<>>
    /\ file = NoFile
    /\ created = "none"
    /\ loaded = "none"

Init ==
    /\ Constructed
    /\ Unprocessed
    /\ Unparsed
    /\ Unloaded
    /\ in_data = <<>>
    /\ in_range = <<2018, 2022>>

Next ==
    \/ \E o \in Listeners : ClientAttach(o)
    \/ \E o \in Listeners : ClientDetach(o)
    \/ \E d \in EnvArgs : Counted(ClientCall(<<"load_environmental_data", d>>))
    \/ \E d \in TranArgs : Counted(ClientCall(<<"load_transport_data", d>>))
    \/ \E yr \in YearArgs : Counted(ClientCall(<<"set_year_range", yr>>))
    \/ \E cs \in CountryArgs : Counted(ClientCall(<<"set_selected_countries", cs>>))
    \/ \E rs \in RegionArgs : Counted(ClientCall(<<"set_selected_regions", rs>>))
    \/ \E m \in FilterArgs : Counted(ClientCall(<<"apply_filter", m>>))
    \/ Counted(ClientCall(<<"clear_filters", None>>))
    \/ UpdateReturns
    \/ UpdateRaises
    \/ \E o \in Listeners : UpdateDetaches(o)
    \/ \E o \in Listeners : UpdateAttaches(o)
    \/ \E c \in NestedCalls : UpdateCallsMutator(c)
    \/ NotifyReturns

Spec == Init /\ [][Next]_vars

-----------------------------------------------------------------------------
(* The filtered views: a manager without listeners, any number of calls *)

ViewEnvArgs == {<<Poland, Germany, France>>, <<Germany, Poland>>}
ViewTranArgs ==
    {<<Deutschland, Mazowieckie, Baden, PolandRegion>>,
     <<Baden, Mazowieckie>>}
ViewCountryArgs == {<<>>, <<"Germany", "Poland">>, <<"Atlantis">>}
ViewRegionArgs == {<<>>, <<"Polska", "Baden", "Deutschland">>, <<"Atlantis">>}
ViewFilterArgs ==
    {<<>>, [country_code |-> "PL"], [country_code |-> "pl"],
     [nuts_level |-> 0], [country_code |-> "DE", nuts_level |-> 1]}

NextView ==
    \/ \E d \in ViewEnvArgs :
           Uncounted(ClientCall(<<"load_environmental_data", d>>))
    \/ \E d \in ViewTranArgs :
           Uncounted(ClientCall(<<"load_transport_data", d>>))
    \/ \E cs \in ViewCountryArgs :
           Uncounted(ClientCall(<<"set_selected_countries", cs>>))
    \/ \E rs \in ViewRegionArgs :
           Uncounted(ClientCall(<<"set_selected_regions", rs>>))
    \/ \E m \in ViewFilterArgs : Uncounted(ClientCall(<<"apply_filter", m>>))
    \/ Uncounted(ClientCall(<<"clear_filters", None>>))
    \/ NotifyReturns
    \/ ClientGetFilteredEnv
    \/ ClientGetFilteredTran

SpecView == Init /\ [][NextView]_vars

-----------------------------------------------------------------------------
(* References handed out: one listener that keeps its payloads, clients   *)
(* that keep the lists the views return, and holders that empty them      *)

HandleNames ==
    {"env_data", "tran_data", "selected_countries", "selected_regions",
     "data_filter"}

NextAlias ==
    \/ ClientAttach(1)
    \/ \E d \in EnvArgs :
           Uncounted(ClientCall(<<"load_environmental_data", d>>))
    \/ \E d \in TranArgs :
           Uncounted(ClientCall(<<"load_transport_data", d>>))
    \/ \E cs \in CountryArgs :
           Uncounted(ClientCall(<<"set_selected_countries", cs>>))
    \/ \E rs \in RegionArgs :
           Uncounted(ClientCall(<<"set_selected_regions", rs>>))
    \/ \E m \in FilterArgs : Uncounted(ClientCall(<<"apply_filter", m>>))
    \/ Uncounted(ClientCall(<<"clear_filters", None>>))
    \/ UpdateReturns
    \/ UpdateKeepsPayload
    \/ NotifyReturns
    \/ ClientGetFilteredEnv
    \/ ClientGetFilteredTran
    \/ \E h \in HandleNames : HolderClears(h)

SpecAlias == Init /\ [][NextAlias]_vars

-----------------------------------------------------------------------------
(* Listeners that attach listeners: src/src/utils/observers.py lines 22-41 *)

(* update() creates a listener and attaches it.  The object is new, so    *)
(* line 24 finds it in no list and line 25 appends it: _observers grows   *)
(* by one with every such callback.  The for-loop of line 37 reads the    *)
(* entries from its position onwards only; the model keeps those entries, *)
(* drops the ones the iterator has passed and names the new object by a   *)
(* name that no kept entry bears, so that the list stays within           *)
(* NumListeners entries.  The history keeps the last such call.           *)
UpdateAttachesNew ==
    /\ CanUpdate
    /\ Len(stack) = 1
    /\ LET ahead == SubSeq(observers, Top.idx + 1, Len(observers))
           new == CHOOSE o \in Listeners : o \notin Range(ahead)
       IN  /\ observers' = attach(ahead, new)
           /\ log' = <<[to |-> observers[Top.idx], event |-> Top.event,
                        seen |-> FieldOf(Top.event), depth |-> 1,
                        raised |-> FALSE, did |-> <<"attach", new>>]>>
    /\ stack' = [stack EXCEPT ![1].idx = 1]
    /\ UNCHANGED <<fields, handles, lastOp, outcome, snapshot, emitted,
                   reent, ret, ncalls, raises, offline, bridge>>

NextChain ==
    \/ \E o \in Listeners : ClientAttach(o)
    \/ \E o \in Listeners : ClientDetach(o)
    \/ \E yr \in YearArgs : Uncounted(ClientCall(<<"set_year_range", yr>>))
    \/ \E cs \in CountryArgs :
           Uncounted(ClientCall(<<"set_selected_countries", cs>>))
    \/ UpdateReturns
    \/ UpdateAttachesNew
    \/ NotifyReturns

(* The interpreter runs the call that is under way: a step of the loop is *)
(* taken whenever one is possible.                                        *)
SpecChain == Init /\ [][NextChain]_vars /\ WF_vars(NextChain)

-----------------------------------------------------------------------------
(* StreamlitObserverBridge: src/src/utils/observers.py lines 244-263 *)

MaxObservers == 3

Components == {"map", "chart"}

(* UIComponentObserver(component_name, refresh_callback): a new object,   *)
(* told from the earlier ones by its serial number                        *)
UIComponentObserver(component_name, serial) ==
    [component_name |-> component_name, serial |-> serial]

(* del d[key] *)
Del(d, key) == [k \in DOMAIN d \ {key} |-> d[k]]

(* Lines 251-256.  The model stops creating objects at MaxObservers. *)
register_component(component_name) ==
    LET observer == UIComponentObserver(component_name, made + 1)
    IN  /\ stack = <<>>
        /\ made < MaxObservers
        /\ made' = made + 1
        /\ observers' = attach(observers, observer)
        /\ component_observers' =
               (component_name :> observer) @@ component_observers
        /\ Started("register_component", component_name, None)
        /\ ret' = observer
        /\ outcome' = "returned"
        /\ emitted' = <<>>
        /\ UNCHANGED <<fields, stack, handles, ncalls, offline>>

(* Lines 258-263 *)
unregister_component(component_name) ==
    /\ stack = <<>>
    /\ IF component_name \in DOMAIN component_observers
       THEN /\ observers' =
                   detach(observers, component_observers[component_name])
            /\ component_observers' = Del(component_observers, component_name)
       ELSE UNCHANGED <<observers, component_observers>>
    /\ Started("unregister_component", component_name, None)
    /\ ret' = None
    /\ outcome' = "returned"
    /\ emitted' = <<>>
    /\ UNCHANGED <<fields, stack, handles, ncalls, offline, made>>

NextBridge ==
    \/ \E c \in Components : register_component(c)
    \/ \E c \in Components : unregister_component(c)
    \/ \E yr \in YearArgs : Uncounted(ClientCall(<<"set_year_range", yr>>))
    \/ UpdateReturns
    \/ NotifyReturns

SpecBridge == Init /\ [][NextBridge]_vars

-----------------------------------------------------------------------------
(* Mutator calls with arguments the mutator cannot use: lines 107-177 *)

(* An int where a dict is expected *)
IntValue(v) == [int |-> v]

(* An object that is neither a CountryData nor a RegionData *)
NonEntity == [label |-> "x"]

(* The exception a mutator raises between its first line and notify(), or *)
(* "none": year_range[1] and year_range[0] of line 140, c.country_name of *)
(* line 113 for the first five elements, r.country_code of line 122, and  *)
(* dict.update of line 170.                                               *)
RaisedBeforeNotify(c) ==
    CASE c[1] = "set_year_range" ->
             IF Len(c[2]) < 2 THEN "IndexError" ELSE "none"
      [] c[1] = "load_environmental_data" ->
             IF \E i \in 1..Len(Take(c[2], 5)) :
                    "country_name" \notin DOMAIN c[2][i]
             THEN "AttributeError" ELSE "none"
      [] c[1] = "load_transport_data" ->
             IF \E i \in 1..Len(c[2]) : "country_code" \notin DOMAIN c[2][i]
             THEN "AttributeError" ELSE "none"
      [] c[1] = "apply_filter" ->
             IF "int" \in DOMAIN c[2] THEN "TypeError" ELSE "none"
      [] OTHER -> "none"

(* A client's call that raises: the lines above the raising one have run  *)
(* (the assignments of lines 109, 118 and 134; none in apply_filter), and *)
(* notify() is not reached.                                               *)
ClientCallRaises(c) ==
    /\ stack = <<>>
    /\ RaisedBeforeNotify(c) # "none"
    /\ env_data' = IF c[1] = "load_environmental_data" THEN c[2] ELSE env_data
    /\ tran_data' = IF c[1] = "load_transport_data" THEN c[2] ELSE tran_data
    /\ year_range' = IF c[1] = "set_year_range" THEN c[2] ELSE year_range
    /\ handles' = CASE c[1] = "load_environmental_data" ->
                           handles \ {"env_data"}
                    [] c[1] = "load_transport_data" -> handles \ {"tran_data"}
                    [] OTHER -> handles
    /\ Started(c[1], c[2], FieldOf(EventOf(c[1])))
    /\ outcome' = "raised"
    /\ ret' = None
    /\ emitted' = <<>>
    /\ UNCHANGED <<observers, selected_countries, selected_regions,
                   data_filter, stack, offline, bridge>>

BadCalls ==
    {<<"set_year_range", <<2020>>>>,
     <<"set_year_range", <<>>>>,
     <<"load_environmental_data", <<Poland, NonEntity>>>>,
     <<"load_transport_data", <<NonEntity>>>>,
     <<"apply_filter", IntValue(5)>>}

NextRaise ==
    \/ \E o \in Listeners : ClientAttach(o)
    \/ \E c \in NestedCalls \cup BadCalls :
           RaisedBeforeNotify(c) = "none" /\ Counted(ClientCall(c))
    \/ \E c \in NestedCalls \cup BadCalls : Counted(ClientCallRaises(c))
    \/ UpdateReturns
    \/ NotifyReturns

SpecRaise == Init /\ [][NextRaise]_vars

-----------------------------------------------------------------------------
(* Aggregation: src/src/data/data_processor.py, src/src/data/models.py *)

(* dict.get(year): <<v>> for a stored value v, <<>> for None *)
get_value_for_year(item, year) ==
    IF year \in DOMAIN item.data_by_year
    THEN <<item.data_by_year[year]>>
    ELSE <<>>

(* list(range(start_year, end_year)), one year short *)
YearListShort(start_year, end_year) ==
    [i \in 1..(end_year - start_year) |-> start_year + i - 1]

(* list(range(start_year, end_year + 1)) *)
YearList(start_year, end_year) ==
    [i \in 1..(end_year - start_year + 1) |-> start_year + i - 1]

RECURSIVE Sum(_)
Sum(s) == IF s = <<>> THEN 0 ELSE s[1] + Sum(Tail(s))

Positive(v) == v > 0

(* The quotient a / b of Python's true division, kept as the pair *)
Quotient(a, b) == <<a, b>>

(* value if value is not None else 0, for every year of the list *)
DenseValues(item, years) ==
    [i \in 1..Len(years) |->
        LET value == get_value_for_year(item, years[i])
        IN  IF value # <<>> THEN value[1] ELSE 0]

(* Lines 27-38: one pass of the loop over `data` *)
CountryLoopBody(res, country) ==
    LET country_values == DenseValues(country, res.years)
    IN  IF \E i \in 1..Len(country_values) : country_values[i] > 0
        THEN [res EXCEPT
                 !.countries = Append(@, country.country_name),
                 !.values = Append(@, country_values),
                 !.totals = Append(@, Sum(country_values)),
                 !.averages =
                     Append(@, Quotient(Sum(country_values),
                                   Len(SelectSeq(country_values, Positive))))]
        ELSE res

RECURSIVE CountryLoop(_, _, _)
CountryLoop(res, data, i) ==
    IF i > Len(data) THEN res
    ELSE CountryLoop(CountryLoopBody(res, data[i]), data, i + 1)

(* process whose average divides by the number of years *)
CountryAggregationStrategy_process_mean(data, yr) ==
    LET res == CountryLoop([countries |-> <<>>, values |-> <<>>,
                            years |-> YearList(yr[1], yr[2]),
                            totals |-> <<>>, averages |-> <<>>], data, 1)
    IN  [res EXCEPT !.averages =
            [k \in 1..Len(res.values) |->
                Quotient(res.totals[k], Len(res.values[k]))]]

CountryAggregationStrategy_process(data, yr) ==
    CountryLoop([countries |-> <<>>, values |-> <<>>,
                 years |-> YearList(yr[1], yr[2]),
                 totals |-> <<>>, averages |-> <<>>], data, 1)

(* The arguments: a list of up to Len(EntityNames) entities, each with a    *)
(* value in -1..MaxValue for any of the NumYears years, and every pair of  *)
(* years as the range, the empty ranges included.                          *)
Years == 2018..(2017 + NumYears)

Values == (-1)..MaxValue

AllSeries == UNION {[Y -> Values] : Y \in SUBSET Years}

EntityNames == <<"A", "B">>

EntityCodes == <<"AA", "BB">>

EntityLists ==
    UNION {{[i \in 1..n |-> CountryData(EntityCodes[i], EntityNames[i], f[i])] :
                f \in [1..n -> AllSeries]} : n \in 0..Len(EntityNames)}

InitAgg ==
    /\ Constructed
    /\ Unprocessed
    /\ Unparsed
    /\ Unloaded
    /\ in_data \in EntityLists
    /\ in_range \in Years \X Years

CountryAggregation ==
    /\ strategy = "none"
    /\ strategy' = "country"
    /\ result' = CountryAggregationStrategy_process(in_data, in_range)
    /\ UNCHANGED <<observers, fields, stack, handles, history, in_data,
                   in_range, options, error, parsing, loading, bridge>>

NextAgg == CountryAggregation

SpecAgg == InitAgg /\ [][NextAgg]_vars

-----------------------------------------------------------------------------
(* RegionAggregationStrategy: src/src/data/data_processor.py lines 43-81 *)

(* The truth value of an optional string: None and "" are false *)
Truthy(opt) == opt # <<>> /\ opt[1] # ""

(* Lines 50-54: the two list comprehensions *)
FilterRegions(data, country_filter, nuts_level) ==
    LET ByCountry(r) == r.country_code = Upper(country_filter[1])
        ByLevel(r) == r.nuts_level = nuts_level[1]
        filtered_data == IF Truthy(country_filter)
                         THEN SelectSeq(data, ByCountry) ELSE data
    IN  IF nuts_level # <<>> THEN SelectSeq(filtered_data, ByLevel)
        ELSE filtered_data

(* the loop body without the test of line 72 *)
RegionLoopBody_unconditional(res, region) ==
    LET region_values == DenseValues(region, res.years)
    IN  [res EXCEPT
            !.regions = Append(@, region.region_name),
            !.values = Append(@, region_values),
            !.country_codes = Append(@, region.country_code),
            !.nuts_levels = Append(@, region.nuts_level),
            !.totals = Append(@, Sum(region_values)),
            !.averages =
                Append(@, Quotient(Sum(region_values),
                              Len(SelectSeq(region_values, Positive))))]

(* Lines 67-79: one pass of the loop over `filtered_data` *)
RegionLoopBody(res, region) ==
    LET region_values == DenseValues(region, res.years)
    IN  IF \E i \in 1..Len(region_values) : region_values[i] > 0
        THEN [res EXCEPT
                 !.regions = Append(@, region.region_name),
                 !.values = Append(@, region_values),
                 !.country_codes = Append(@, region.country_code),
                 !.nuts_levels = Append(@, region.nuts_level),
                 !.totals = Append(@, Sum(region_values)),
                 !.averages =
                     Append(@, Quotient(Sum(region_values),
                                   Len(SelectSeq(region_values, Positive))))]
        ELSE res

RECURSIVE RegionLoop(_, _, _)
RegionLoop(res, data, i) ==
    IF i > Len(data) THEN res
    ELSE RegionLoop(RegionLoopBody(res, data[i]), data, i + 1)

(* process whose country filter is compared as it was given *)
RegionAggregationStrategy_process_exact(data, yr, country_filter, nuts_level) ==
    LET ByCountry(r) == r.country_code = country_filter[1]
        ByLevel(r) == r.nuts_level = nuts_level[1]
        filtered_data == IF Truthy(country_filter)
                         THEN SelectSeq(data, ByCountry) ELSE data
        leveled == IF nuts_level # <<>> THEN SelectSeq(filtered_data, ByLevel)
                   ELSE filtered_data
    IN  RegionLoop([regions |-> <<>>, values |-> <<>>,
                    years |-> YearList(yr[1], yr[2]),
                    country_codes |-> <<>>, nuts_levels |-> <<>>,
                    totals |-> <<>>, averages |-> <<>>], leveled, 1)

RegionAggregationStrategy_process(data, yr, country_filter, nuts_level) ==
    RegionLoop([regions |-> <<>>, values |-> <<>>,
                years |-> YearList(yr[1], yr[2]),
                country_codes |-> <<>>, nuts_levels |-> <<>>,
                totals |-> <<>>, averages |-> <<>>],
               FilterRegions(data, country_filter, nuts_level), 1)

-----------------------------------------------------------------------------
(* TopNStrategy: src/src/data/data_processor.py lines 84-145 *)

(* the values of the years of the range that are not negative *)
PositiveValues_nonnegative(item, start_year, end_year) ==
    LET years == YearList(start_year, end_year)
        Stored(y) == /\ get_value_for_year(item, y) # <<>>
                     /\ get_value_for_year(item, y)[1] >= 0
        Value(y) == get_value_for_year(item, y)[1]
        kept == SelectSeq(years, Stored)
    IN  [i \in 1..Len(kept) |-> Value(kept[i])]

(* Lines 97-101: the positive values of the years of the range *)
PositiveValues(item, start_year, end_year) ==
    LET years == YearList(start_year, end_year)
        Stored(y) == /\ get_value_for_year(item, y) # <<>>
                     /\ get_value_for_year(item, y)[1] > 0
        Value(y) == get_value_for_year(item, y)[1]
        kept == SelectSeq(years, Stored)
    IN  [i \in 1..Len(kept) |-> Value(kept[i])]

(* item.get_value_for_year(end_year) or 0 *)
Latest(item, end_year) ==
    LET value == get_value_for_year(item, end_year)
    IN  IF value # <<>> /\ value[1] # 0 THEN value[1] ELSE 0

(* Lines 96-114: the loop that collects items_with_metrics *)
RECURSIVE ItemsWithMetrics(_, _, _, _)
ItemsWithMetrics(acc, data, yr, i) ==
    IF i > Len(data) THEN acc
    ELSE LET item == data[i]
             values == PositiveValues(item, yr[1], yr[2])
         IN  ItemsWithMetrics(
                 IF values # <<>>
                 THEN Append(acc, [item |-> item,
                                   total |-> Sum(values),
                                   average |-> Quotient(Sum(values), Len(values)),
                                   latest |-> Latest(item, yr[2]),
                                   values |-> values])
                 ELSE acc,
                 data, yr, i + 1)

SortKeys == {"total", "average", "latest"}

(* x[self.sort_by] as a quotient, for the three numeric keys *)
KeyOf(x, sort_by) ==
    CASE sort_by = "total" -> Quotient(x.total, 1)
      [] sort_by = "average" -> x.average
      [] sort_by = "latest" -> Quotient(x.latest, 1)

(* p < q for quotients with positive denominators *)
KeyLess(p, q) == p[1] * q[2] < q[1] * p[2]

(* the insertion of an unstable sort: in front of the first item whose   *)
(* key is not larger than its own                                         *)
InsertDescending_unstable(sorted, x, sort_by) ==
    LET Smaller(k) == ~KeyLess(KeyOf(x, sort_by), KeyOf(sorted[k], sort_by))
        at == IF \E k \in 1..Len(sorted) : Smaller(k)
              THEN CHOOSE k \in 1..Len(sorted) :
                       Smaller(k) /\ \A j \in 1..(k - 1) : ~Smaller(j)
              ELSE Len(sorted) + 1
    IN  SubSeq(sorted, 1, at - 1) \o <<x>> \o SubSeq(sorted, at, Len(sorted))

(* sorted(..., reverse=True): a stable sort, built by insertion; an item   *)
(* goes in front of the first item whose key is smaller than its own.     *)
InsertDescending(sorted, x, sort_by) ==
    LET Smaller(k) == KeyLess(KeyOf(sorted[k], sort_by), KeyOf(x, sort_by))
        at == IF \E k \in 1..Len(sorted) : Smaller(k)
              THEN CHOOSE k \in 1..Len(sorted) :
                       Smaller(k) /\ \A j \in 1..(k - 1) : ~Smaller(j)
              ELSE Len(sorted) + 1
    IN  SubSeq(sorted, 1, at - 1) \o <<x>> \o SubSeq(sorted, at, Len(sorted))

RECURSIVE SortedDescending(_, _, _, _)
SortedDescending(acc, items, sort_by, i) ==
    IF i > Len(items) THEN acc
    ELSE SortedDescending(InsertDescending(acc, items[i], sort_by),
                          items, sort_by, i + 1)

(* s[:n] *)
Slice(s, n) ==
    IF n >= 0 THEN SubSeq(s, 1, IF n < Len(s) THEN n ELSE Len(s))
    ELSE SubSeq(s, 1, Len(s) + n)

(* item.country_name if isinstance(item, CountryData) else item.region_name *)
NameOf(item) ==
    IF "country_name" \in DOMAIN item THEN item.country_name
    ELSE item.region_name

(* the result whose names are listed in the opposite order *)
TopNResult_misaligned(sorted_items, yr, sort_by) ==
    LET years == YearList(yr[1], yr[2])
    IN  [items |-> [k \in 1..Len(sorted_items) |-> sorted_items[k].item],
         names |-> [k \in 1..Len(sorted_items) |->
                       NameOf(sorted_items[Len(sorted_items) - k + 1].item)],
         values |-> [k \in 1..Len(sorted_items) |->
                        DenseValues(sorted_items[k].item, years)],
         years |-> years,
         totals |-> [k \in 1..Len(sorted_items) |-> sorted_items[k].total],
         averages |-> [k \in 1..Len(sorted_items) |-> sorted_items[k].average],
         sort_criterion |-> sort_by]

(* Lines 120-145: the result built from sorted_items *)
TopNResult(sorted_items, yr, sort_by) ==
    LET years == YearList(yr[1], yr[2])
    IN  [items |-> [k \in 1..Len(sorted_items) |-> sorted_items[k].item],
         names |-> [k \in 1..Len(sorted_items) |-> NameOf(sorted_items[k].item)],
         values |-> [k \in 1..Len(sorted_items) |->
                        DenseValues(sorted_items[k].item, years)],
         years |-> years,
         totals |-> [k \in 1..Len(sorted_items) |-> sorted_items[k].total],
         averages |-> [k \in 1..Len(sorted_items) |-> sorted_items[k].average],
         sort_criterion |-> sort_by]

(* What process does: it returns a result, or the key function of line    *)
(* 117 raises KeyError on the first item it is applied to.                *)
Returned(value) == [raised |-> "none", value |-> value]

Raised(exception) == [raised |-> exception, value |-> <<>>]

(* process that leaves the items in input order *)
TopNStrategy_process_unsorted(data, yr, n, sort_by) ==
    LET items_with_metrics == ItemsWithMetrics(<<>>, data, yr, 1)
    IN  IF sort_by \notin SortKeys /\ items_with_metrics # <<>>
        THEN Raised("KeyError")
        ELSE Returned(TopNResult(Slice(items_with_metrics, n), yr, sort_by))

TopNStrategy_process(data, yr, n, sort_by) ==
    LET items_with_metrics == ItemsWithMetrics(<<>>, data, yr, 1)
    IN  IF sort_by \notin SortKeys /\ items_with_metrics # <<>>
        THEN Raised("KeyError")
        ELSE Returned(TopNResult(
                 Slice(IF items_with_metrics = <<>> THEN <<>>
                       ELSE SortedDescending(<<>>, items_with_metrics,
                                             sort_by, 1), n),
                 yr, sort_by))

-----------------------------------------------------------------------------
(* The three strategies on lists drawn from a pool of entities: series    *)
(* with equal totals, with a zero, a negative value and years without a   *)
(* value, regions of two countries and two levels.                        *)

MaxListLen == 3
MaxN == 3

CountryPool ==
    {CountryData("AA", "A", (2018 :> 1) @@ (2019 :> 1) @@ (2020 :> 1)),
     CountryData("BB", "B", (2018 :> 2)),
     CountryData("CC", "C", (2018 :> 0) @@ (2019 :> -1)),
     CountryData("DD", "D", (2018 :> -1) @@ (2019 :> 2)),
     CountryData("EE", "E", (2018 :> 3) @@ (2019 :> -1) @@ (2020 :> 1))}

RegionPool ==
    {PolandRegion, Mazowieckie, Baden, Deutschland,
     RegionData("FR1", "Bretagne", "FR", 1, (2018 :> 0) @@ (2020 :> 1))}

(* The lists of up to MaxListLen different members of a pool *)
ListsOf(pool) ==
    UNION {{s \in [1..len -> pool] :
               \A i, j \in 1..len : i # j => s[i] # s[j]} :
           len \in 0..MaxListLen}

IsCountryList(data) ==
    \A i \in 1..Len(data) : "country_name" \in DOMAIN data[i]

IsRegionList(data) ==
    \A i \in 1..Len(data) : "region_name" \in DOMAIN data[i]

CountryFilters == {<<>>, <<"">>, <<"pl">>, <<"DE">>}

NutsLevels == {<<>>, <<0>>, <<1>>}

SortByArgs == SortKeys \cup {"bogus"}

NArgs == (-1)..MaxN

InitStrategies ==
    /\ Constructed
    /\ Unprocessed
    /\ Unparsed
    /\ Unloaded
    /\ in_data \in ListsOf(CountryPool) \cup ListsOf(RegionPool)
    /\ in_range \in Years \X Years

RegionAggregation(country_filter, nuts_level) ==
    /\ strategy = "none"
    /\ strategy' = "region"
    /\ options' = [options EXCEPT !.country_filter = country_filter,
                                  !.nuts_level = nuts_level]
    /\ result' = RegionAggregationStrategy_process(in_data, in_range,
                                                   country_filter, nuts_level)
    /\ UNCHANGED <<observers, fields, stack, handles, history, in_data,
                   in_range, error, parsing, loading, bridge>>

TopN(n, sort_by) ==
    LET r == TopNStrategy_process(in_data, in_range, n, sort_by)
    IN  /\ strategy = "none"
        /\ strategy' = "top_n"
        /\ options' = [options EXCEPT !.n = n, !.sort_by = sort_by]
        /\ error' = r.raised
        /\ result' = r.value
        /\ UNCHANGED <<observers, fields, stack, handles, history, in_data,
                       in_range, parsing, loading, bridge>>

NextStrategies ==
    \/ IsCountryList(in_data) /\ CountryAggregation
    \/ \E c \in CountryFilters, l \in NutsLevels :
           IsRegionList(in_data) /\ RegionAggregation(c, l)
    \/ \E n \in NArgs, k \in SortByArgs : TopN(n, k)

SpecStrategies == InitStrategies /\ [][NextStrategies]_vars

(* TopNStrategy and CountryAggregationStrategy on the same arguments: the *)
(* lists and ranges of InitAgg, n the number of entities.                 *)
NextBoth ==
    \/ CountryAggregation
    \/ \E k \in SortKeys : TopN(Len(in_data), k)

SpecBoth == InitAgg /\ [][NextBoth]_vars

-----------------------------------------------------------------------------
(* Spreadsheet cells and strings: src/src/data/data_loader.py             *)
(*                                                                        *)
(* A string is the sequence of its characters.  A cell of the DataFrame   *)
(* is empty (NaN), a string, or a number; the grid handed to _parse_data  *)
(* is kept by its parts: `header` holds the cells of row 8 in the value   *)
(* columns the loader scans (columns 1, 3, ... for the country layout,    *)
(* 2, 4, ... for the region layout), and each of `rows` (row 10 onwards)  *)
(* holds the code cell (region layout only), the name cell and the cells  *)
(* of the same value columns.                                             *)

NaN == [kind |-> "nan", text |-> <<>>, num |-> 0]

Text(chars) == [kind |-> "str", text |-> chars, num |-> 0]

Number(v) == [kind |-> "num", text |-> <<>>, num |-> v]

Row(code, name, cells) == [code |-> code, name |-> name, cells |-> cells]

(* pd.notna *)
notna(cell) == cell.kind # "nan"

DigitChars == <<"0", "1", "2", "3", "4", "5", "6", "7", "8", "9">>

LowerChars ==
    <<"a", "b", "c", "d", "e", "f", "g", "h", "i", "j", "k", "l", "m",
      "n", "o", "p", "q", "r", "s", "t", "u", "v", "w", "x", "y", "z">>

UpperChars ==
    <<"A", "B", "C", "D", "E", "F", "G", "H", "I", "J", "K", "L", "M",
      "N", "O", "P", "Q", "R", "S", "T", "U", "V", "W", "X", "Y", "Z">>

(* str.upper() *)
upper(chars) ==
    [k \in 1..Len(chars) |->
        IF \E i \in 1..Len(LowerChars) : LowerChars[i] = chars[k]
        THEN UpperChars[CHOOSE i \in 1..Len(LowerChars) :
                            LowerChars[i] = chars[k]]
        ELSE chars[k]]

(* str.strip() *)
RECURSIVE strip(_)
strip(chars) ==
    IF chars = <<>> THEN <<>>
    ELSE IF Head(chars) = " " THEN strip(Tail(chars))
    ELSE IF chars[Len(chars)] = " " THEN strip(SubSeq(chars, 1, Len(chars) - 1))
    ELSE chars

(* str.replace(old, '') for a one-character old *)
Without(chars, old) ==
    LET Other(c) == c # old IN SelectSeq(chars, Other)

(* str() of a non-negative integer *)
RECURSIVE Decimal(_)
Decimal(v) ==
    IF v < 10 THEN <<DigitChars[v + 1]>>
    ELSE Decimal(v \div 10) \o <<DigitChars[(v % 10) + 1]>>

(* str() of a cell that is not NaN *)
str(cell) ==
    IF cell.kind = "str" THEN cell.text
    ELSE IF cell.num < 0 THEN <<"-">> \o Decimal(-cell.num)
    ELSE Decimal(cell.num)

IsDigit(c) == \E i \in 1..Len(DigitChars) : DigitChars[i] = c

DigitValue(c) == (CHOOSE i \in 1..Len(DigitChars) : DigitChars[i] = c) - 1

RECURSIVE DigitsValue(_)
DigitsValue(chars) ==
    IF chars = <<>> THEN 0
    ELSE DigitsValue(SubSeq(chars, 1, Len(chars) - 1)) * 10
             + DigitValue(chars[Len(chars)])

(* int() and float() of a string of the characters the model uses: an     *)
(* optional sign and digits give <<value>>, anything else raises          *)
(* ValueError, which is <<>>.                                             *)
ParseNumber(chars) ==
    LET body == strip(chars)
        signed == body # <<>> /\ Head(body) \in {"-", "+"}
        digits == IF signed THEN Tail(body) ELSE body
    IN  IF digits # <<>> /\ \A k \in 1..Len(digits) : IsDigit(digits[k])
        THEN <<(IF signed /\ Head(body) = "-" THEN -1 ELSE 1)
                   * DigitsValue(digits)>>
        ELSE <<>>

(* Lines 39-48 and 140-149: the years of the header row *)
RECURSIVE HeaderYears(_, _)
HeaderYears(header, c) ==
    IF c > Len(header) THEN <<>>
    ELSE LET cell_value == header[c]
             year == IF notna(cell_value)
                     THEN ParseNumber(strip(str(cell_value))) ELSE <<>>
         IN  (IF year # <<>> /\ 2000 <= year[1] /\ year[1] <= 2030
              THEN <<year[1]>> ELSE <<>>)
                 \o HeaderYears(header, c + 1)

(* the value of a cell without the sign test of lines 70 and 173 *)
CellValue_signless(cell_value, missing, zero) ==
    IF ~notna(cell_value) THEN <<>>
    ELSE LET value_str == Without(Without(str(cell_value), ","), " ")
             value == ParseNumber(value_str)
         IN  IF value_str # <<>> /\ value_str # <<missing>> /\ value # <<>>
             THEN value ELSE <<>>

(* Lines 65-73 and 168-176: the value a cell contributes, <<>> if none;   *)
(* `missing` is the loader's sentinel, `zero` whether 0 is kept.          *)
CellValue(cell_value, missing, zero) ==
    IF ~notna(cell_value) THEN <<>>
    ELSE LET value_str == Without(Without(str(cell_value), ","), " ")
             value == ParseNumber(value_str)
         IN  IF value_str # <<>> /\ value_str # <<missing>> /\ value # <<>>
                /\ (value[1] > 0 \/ (zero /\ value[1] = 0))
             THEN value ELSE <<>>

(* Lines 58-73 and 161-176: data_by_year of a row; the i-th year reads    *)
(* the i-th value column.                                                 *)
RECURSIVE RowSeries(_, _, _, _, _)
RowSeries(cells, years, missing, zero, i) ==
    IF i > Len(years) THEN <<>>
    ELSE LET rest == RowSeries(cells, years, missing, zero, i + 1)
             value == IF i <= Len(cells)
                      THEN CellValue(cells[i], missing, zero) ELSE <<>>
         IN  IF value # <<>> /\ years[i] \notin DOMAIN rest
             THEN (years[i] :> value[1]) @@ rest
             ELSE rest

-----------------------------------------------------------------------------
(* EnvironmentalDataLoader: src/src/data/data_loader.py lines 19-117 *)

(* Lines 88-115, the entries for the names the model uses *)
country_codes ==
    {<<<<"P", "o", "l", "a", "n", "d">>, <<"P", "L">>>>,
     <<<<"G", "e", "r", "m", "a", "n", "y">>, <<"D", "E">>>>}

(* country_codes.get(country_name, country_name[:2].upper()) *)
generate_country_code(country_name) ==
    IF \E e \in country_codes : e[1] = country_name
    THEN (CHOOSE e \in country_codes : e[1] = country_name)[2]
    ELSE upper(SubSeq(country_name, 1,
                      IF Len(country_name) < 2 THEN Len(country_name) ELSE 2))

(* pd.isna(name) or not str(name).strip() *)
NameIsBlank(name) == ~notna(name) \/ strip(str(name)) = <<>>

(* the loop body that keeps the zeros *)
EnvironmentalRow_zero(countries, row, years) ==
    LET country_name == strip(str(row.name))
        data_by_year == RowSeries(row.cells, years, "i", TRUE, 1)
    IN  IF NameIsBlank(row.name) \/ DOMAIN data_by_year = {} THEN countries
        ELSE Append(countries,
                    CountryData(generate_country_code(country_name),
                                country_name, data_by_year))

(* Lines 51-83: one pass of the loop over the data rows *)
EnvironmentalRow(countries, row, years) ==
    LET country_name == strip(str(row.name))
        data_by_year == RowSeries(row.cells, years, "i", FALSE, 1)
    IN  IF NameIsBlank(row.name) \/ DOMAIN data_by_year = {} THEN countries
        ELSE Append(countries,
                    CountryData(generate_country_code(country_name),
                                country_name, data_by_year))

RECURSIVE EnvironmentalRows(_, _, _, _)
EnvironmentalRows(countries, rows, years, i) ==
    IF i > Len(rows) THEN countries
    ELSE EnvironmentalRows(EnvironmentalRow(countries, rows[i], years),
                           rows, years, i + 1)

EnvironmentalDataLoader_parse_data(df) ==
    EnvironmentalRows(<<>>, df.rows, HeaderYears(df.header, 1), 1)

-----------------------------------------------------------------------------
(* TransportDataLoader: src/src/data/data_loader.py lines 120-210 *)

UNKNOWN == <<"U", "N", "K", "N", "O", "W", "N">>

(* _get_nuts_level that applies the length rule only *)
get_nuts_level_by_length(region_code) ==
    CASE Len(region_code) = 2 -> 0
      [] Len(region_code) = 3 -> 1
      [] Len(region_code) = 4 -> 2
      [] OTHER -> 3

get_nuts_level(region_code) ==
    IF region_code = <<>> \/ region_code = UNKNOWN THEN 0
    ELSE CASE Len(region_code) = 2 -> 0
           [] Len(region_code) = 3 -> 1
           [] Len(region_code) = 4 -> 2
           [] OTHER -> 3

extract_country_code(region_code) ==
    IF region_code = <<>> \/ Len(region_code) < 2 THEN <<"X", "X">>
    ELSE upper(SubSeq(region_code, 1, 2))

(* the loop body that emits a row without any stored value *)
TransportRow_always(regions, row, years) ==
    LET region_code == IF notna(row.code) THEN strip(str(row.code))
                       ELSE UNKNOWN
        region_name == strip(str(row.name))
        data_by_year == RowSeries(row.cells, years, ":", TRUE, 1)
    IN  IF NameIsBlank(row.name) THEN regions
        ELSE Append(regions,
                    RegionData(region_code, region_name,
                               extract_country_code(region_code),
                               get_nuts_level(region_code), data_by_year))

(* Lines 152-189: one pass of the loop over the data rows *)
TransportRow(regions, row, years) ==
    LET region_code == IF notna(row.code) THEN strip(str(row.code))
                       ELSE UNKNOWN
        region_name == strip(str(row.name))
        data_by_year == RowSeries(row.cells, years, ":", TRUE, 1)
    IN  IF NameIsBlank(row.name) \/ DOMAIN data_by_year = {} THEN regions
        ELSE Append(regions,
                    RegionData(region_code, region_name,
                               extract_country_code(region_code),
                               get_nuts_level(region_code), data_by_year))

RECURSIVE TransportRows(_, _, _, _)
TransportRows(regions, rows, years, i) ==
    IF i > Len(rows) THEN regions
    ELSE TransportRows(TransportRow(regions, rows[i], years),
                       rows, years, i + 1)

TransportDataLoader_parse_data(df) ==
    TransportRows(<<>>, df.rows, HeaderYears(df.header, 1), 1)

-----------------------------------------------------------------------------
(* The loaders on grids built from a pool of header rows and data rows:   *)
(* every kind of value cell (empty, number, zero, negative, the two       *)
(* sentinels, text, separators), of name cell and of code cell.           *)

MaxRows == 2

Testland == <<"T", "e", "s", "t", "l", "a", "n", "d">>

HeaderPool ==
    {<<Number(2018), Number(2019), Number(2020)>>,
     <<Number(2018), NaN, Number(2020)>>,
     <<Text(<<" ", "2", "0", "1", "8", " ">>), Number(1999), Number(2019)>>,
     <<Number(2019), Number(2019), Text(<<"x">>)>>}

RowPool ==
    {Row(NaN, Text(Testland), <<Number(100), Number(0), Number(50)>>),
     Row(Text(<<"P", "L">>), Text(<<" ", "P", "o", "l", "a", "n", "d", " ">>),
         <<Number(1), NaN, Text(<<"x">>)>>),
     Row(Text(<<"p", "l", "1">>), Text(<<"A", "b">>),
         <<Text(<<"1", ",", "0">>), Text(<<":">>), Number(-1)>>),
     Row(Text(<<"D", "E", "1", "2", "3">>), Text(<<"C", "d">>),
         <<Text(<<"i">>), Text(<<":">>), NaN>>),
     Row(Text(<<" ">>), Text(<<"E", "f">>),
         <<Number(0), Text(<<" ">>), Text(<<"-", "1">>)>>),
     Row(Text(<<"D", "E", "1">>), NaN,
         <<Number(5), Number(5), Number(5)>>),
     Row(Text(<<"P">>), Text(<<"G", "h">>),
         <<NaN, Number(2), Text(<<"1", " ", "0">>)>>),
     Row(Text(<<"d", "e", "1">>), Text(<<" ">>),
         <<Number(5), Number(5), Number(5)>>),
     Row(Text(<<"P", "L", "1", "2">>), Text(<<"I", "j">>),
         <<Text(<<"0">>), Number(3), NaN>>),
     Row(Text(<<"D", "E", "1", "2", "3">>), Text(<<"K", "l">>),
         <<Number(7), Text(<<"i">>), Text(<<":">>)>>)}

Sheets ==
    {[header |-> h, rows |-> r] :
        h \in HeaderPool,
        r \in UNION {[1..len -> RowPool] : len \in 0..MaxRows}}

InitParse ==
    /\ Constructed
    /\ Unprocessed
    /\ Unloaded
    /\ loader = "none"
    /\ sheet \in Sheets
    /\ in_data = <<>>
    /\ in_range = <<2018, 2020>>

ParseEnvironmental ==
    /\ loader = "none"
    /\ loader' = "environmental"
    /\ in_data' = EnvironmentalDataLoader_parse_data(sheet)
    /\ UNCHANGED <<observers, fields, stack, handles, history, strategy,
                   in_range, result, options, error, sheet, loading, bridge>>

ParseTransport ==
    /\ loader = "none"
    /\ loader' = "transport"
    /\ in_data' = TransportDataLoader_parse_data(sheet)
    /\ UNCHANGED <<observers, fields, stack, handles, history, strategy,
                   in_range, result, options, error, sheet, loading, bridge>>

NextParse ==
    \/ ParseEnvironmental
    \/ ParseTransport
    \/ loader = "environmental" /\ CountryAggregation
    \/ loader = "transport" /\ RegionAggregation(<<>>, <<>>)

SpecParse == InitParse /\ [][NextParse]_vars

-----------------------------------------------------------------------------
(* DataLoaderFactory and load: src/src/data/data_loader.py lines 21-31,   *)
(* 122-132 and 213-228.  A character outside ASCII is written by its code *)
(* point.                                                                 *)

(* str.lower() *)
lower(chars) ==
    [k \in 1..Len(chars) |->
        IF \E i \in 1..Len(UpperChars) : UpperChars[i] = chars[k]
        THEN LowerChars[CHOOSE i \in 1..Len(UpperChars) :
                            UpperChars[i] = chars[k]]
        ELSE IF chars[k] = "U+00C5" THEN "U+00E5"
        ELSE chars[k]]

Environmental ==
    <<"e", "n", "v", "i", "r", "o", "n", "m", "e", "n", "t", "a", "l">>

Transport == <<"t", "r", "a", "n", "s", "p", "o", "r", "t">>

(* The list of line 219, as the file spells it *)
environmental_aliases ==
    {Environmental,
     <<"e", "n", "v">>,
     <<"r", "e", "c", "y", "c", "l", "i", "n", "g">>,
     <<"U+00C5", "U+203A">>
         \o <<"r", "o", "d", "o", "w", "i", "s", "k", "o", "w", "y">>}

(* The list of line 221 *)
transport_aliases ==
    {Transport,
     <<"t", "r", "a", "n">>,
     <<"e", "l", "e", "c", "t", "r", "i", "c">>,
     Transport \o <<"o", "w", "y">>}

create_loader(type) ==
    LET normalized == strip(lower(type))
    IN  IF normalized \in environmental_aliases
        THEN Returned("EnvironmentalDataLoader")
        ELSE IF normalized \in transport_aliases
        THEN Returned("TransportDataLoader")
        ELSE Raised("ValueError")

get_available_types == <<Environmental, Transport>>

(* pd.read_excel(file_path, sheet_name='Sheet 1', header=None): the grid, *)
(* or the exception of a path without a file or of a file that is not a   *)
(* readable workbook.                                                     *)
read_excel(f) ==
    CASE f.state = "missing" -> Raised("FileNotFoundError")
      [] f.state = "corrupt" -> Raised("BadZipFile")
      [] OTHER -> Returned(f.df)

(* _parse_data on the grid read: df.iloc[header_row, col_idx] of lines 41 *)
(* and 142 raises IndexError on a grid without a row 8.                   *)
ParseOutcome(f, entities) ==
    IF f.state = "short" THEN Raised("IndexError") ELSE Returned(entities)

(* load with the except clause of line 27 only *)
EnvironmentalDataLoader_load_uncaught(f) ==
    LET df == read_excel(f)
        countries == ParseOutcome(f, EnvironmentalDataLoader_parse_data(f.df))
    IN  IF df.raised = "FileNotFoundError" THEN Returned(<<>>)
        ELSE IF df.raised # "none" THEN Raised(df.raised)
        ELSE IF countries.raised # "none" THEN Raised(countries.raised)
        ELSE countries

(* Lines 21-31: FileNotFoundError and every other Exception end in [] *)
EnvironmentalDataLoader_load(f) ==
    LET df == read_excel(f)
        countries == ParseOutcome(f, EnvironmentalDataLoader_parse_data(f.df))
    IN  IF df.raised = "FileNotFoundError" THEN Returned(<<>>)
        ELSE IF df.raised # "none" THEN Returned(<<>>)
        ELSE IF countries.raised # "none" THEN Returned(<<>>)
        ELSE countries

(* Lines 122-132 *)
TransportDataLoader_load(f) ==
    LET df == read_excel(f)
        regions == ParseOutcome(f, TransportDataLoader_parse_data(f.df))
    IN  IF df.raised = "FileNotFoundError" THEN Returned(<<>>)
        ELSE IF df.raised # "none" THEN Returned(<<>>)
        ELSE IF regions.raised # "none" THEN Returned(<<>>)
        ELSE regions

(* The names handed to the factory: the aliases as spelled, in other case *)
(* and inside blanks, and names that are no alias.                        *)
DataTypes ==
    environmental_aliases \cup transport_aliases
        \cup {upper(a) : a \in environmental_aliases \cup transport_aliases}
        \cup {<<" ">> \o a \o <<" ", " ">> :
                 a \in environmental_aliases \cup transport_aliases}
        \cup {<<>>, <<" ">>, <<"c", "s", "v">>, <<"e", "n", " ", "v">>,
              Environmental \o <<"s">>,
              <<"U+00E5", "U+203A">>
                  \o <<"r", "o", "d", "o", "w", "i", "s", "k", "o", "w", "y">>}

(* The files: no file, a file that is no workbook, a workbook whose grid  *)
(* ends above the header row, and workbooks with one data row.            *)
Files ==
    {NoFile,
     [state |-> "corrupt", df |-> NoSheet],
     [state |-> "short", df |-> NoSheet]}
        \cup {[state |-> "workbook", df |-> [header |-> h, rows |-> <<r>>]] :
                 h \in HeaderPool, r \in RowPool}

InitLoad ==
    /\ Constructed
    /\ Unprocessed
    /\ Unparsed
    /\ data_type \in DataTypes
    /\ file \in Files
    /\ created = "none"
    /\ loaded = "none"
    /\ in_data = <<>>
    /\ in_range = <<2018, 2020>>

CreateLoader ==
    LET r == create_loader(data_type)
    IN  /\ created = "none"
        /\ created' = IF r.raised = "none" THEN r.value ELSE r.raised
        /\ UNCHANGED <<observers, fields, stack, handles, history,
                       aggregation, parsing, data_type, file, loaded,
                       bridge>>

Load ==
    LET r == IF created = "EnvironmentalDataLoader"
             THEN EnvironmentalDataLoader_load(file)
             ELSE TransportDataLoader_load(file)
    IN  /\ created \in {"EnvironmentalDataLoader", "TransportDataLoader"}
        /\ loaded = "none"
        /\ loaded' = IF r.raised = "none" THEN "returned" ELSE r.raised
        /\ in_data' = r.value
        /\ UNCHANGED <<observers, fields, stack, handles, history, strategy,
                       in_range, result, options, error, parsing, data_type,
                       file, created, bridge>>

NextLoad ==
    \/ CreateLoader
    \/ Load

SpecLoad == InitLoad /\ [][NextLoad]_vars

-----------------------------------------------------------------------------
(* Vocabulary of the properties *)

Deliveries == [i \in 1..Len(log) |-> log[i].to]

NoDuplicates(s) == \A i, j \in 1..Len(s) : s[i] = s[j] => i = j

Times(l) == Cardinality({i \in 1..Len(log) : log[i].to = l})

(* No listener called back into the manager during the client's call *)
NoReentry == \A i \in 1..Len(log) : log[i].did = Nothing

(* The value the client's call assigns to its field *)
NewValue(op) ==
    CASE op.name = "apply_filter" -> Merge(op.old, op.arg)
      [] op.name = "clear_filters" -> <<>>
      [] OTHER -> op.arg

(* The elements of s that satisfy P, in the order of s *)
Matching(s, P(_)) ==
    LET I == {i \in 1..Len(s) : P(s[i])}
    IN  [k \in 1..Cardinality(I) |->
            s[CHOOSE i \in I : Cardinality({j \in I : j < i}) = k - 1]]

-----------------------------------------------------------------------------
(* C1: after any attach/detach calls, a mutator call delivers its          *)
(* notification to every listener registered at the time of the call,      *)
(* exactly once each and in registration order (the order of _observers,   *)
(* which never holds a listener twice, however often attach was called);   *)
(* a detached listener is not in the list and receives nothing.  Stated    *)
(* for calls during which no listener calls back into the manager.         *)
C1_RegisteredNotifiedOnceInOrder ==
    /\ NoDuplicates(observers)
    /\ lastOp.name = "attach" => lastOp.arg \in Range(observers)
    /\ lastOp.name = "detach" => lastOp.arg \notin Range(observers)
    /\ (lastOp.name \in Mutators /\ outcome = "returned" /\ NoReentry) =>
           /\ Deliveries = snapshot
           /\ \A i \in 1..Len(log) : log[i].event = EventOf(lastOp.name)
           /\ \A l \in Listeners :
                  Times(l) = IF l \in Range(snapshot) THEN 1 ELSE 0

C1_Witness ==
    /\ lastOp.name = "set_year_range"
    /\ outcome = "returned"
    /\ NoReentry
    /\ snapshot = <<3, 1>>
    /\ Deliveries = <<3, 1>>

(* C2: an Exception raised by a listener's update is caught: the mutator   *)
(* is not left by it, the listeners after the raising one still receive    *)
(* the notification, and the field keeps the value the mutator assigned.   *)
C2_ListenerExceptionIsolated ==
    (lastOp.name \in Mutators /\ raises > 0) =>
        /\ outcome \in {"running", "returned"}
        /\ outcome = "running" => stack # <<>>
        /\ NoReentry => FieldOf(EventOf(lastOp.name)) = NewValue(lastOp)
        /\ (outcome = "returned" /\ NoReentry) =>
               /\ Deliveries = snapshot
               /\ \A i \in 1..Len(log) : log[i].event = EventOf(lastOp.name)

C2_Witness ==
    /\ lastOp.name = "apply_filter"
    /\ outcome = "returned"
    /\ Len(log) = 3
    /\ log[1].raised
    /\ Deliveries = snapshot
    /\ data_filter = lastOp.arg

(* C3: when listeners only detach listeners from inside the notification,  *)
(* every listener that was registered when the mutator was called and has  *)
(* not been detached receives the notification exactly once.               *)
DetachedInCallbacks ==
    {log[i].did[2] : i \in {j \in 1..Len(log) : log[j].did[1] = "detach"}}

C3_DetachInCallbackSkipsNobody ==
    (/\ lastOp.name \in Mutators
     /\ outcome = "returned"
     /\ \A i \in 1..Len(log) : log[i].did[1] \in {"none", "detach"}) =>
        \A l \in Range(snapshot) \ DetachedInCallbacks : Times(l) = 1

(* C4: a mutator assigns before it notifies, and notifies once: every      *)
(* mutator call, a client's or a listener's, emits exactly one             *)
(* notification, of its own event kind, and every listener called before   *)
(* any listener has called a mutator itself reads the new value from the   *)
(* field that the event reports on.                                        *)
CallsInLog == SelectSeq(log, LAMBDA e : e.did[1] = "call")

C4_AssignThenNotifyOnce ==
    lastOp.name \in Mutators =>
        /\ emitted = <<EventOf(lastOp.name)>>
                         \o [k \in 1..Len(CallsInLog) |->
                                EventOf(CallsInLog[k].did[2])]
        /\ \A i \in 1..Len(log) :
               (\A j \in 1..(i - 1) : log[j].did[1] # "call") =>
                   /\ log[i].event = EventOf(lastOp.name)
                   /\ log[i].seen = NewValue(lastOp)

C4_Witness ==
    /\ lastOp.name = "set_year_range"
    /\ lastOp.old = <<2018, 2022>>
    /\ outcome = "returned"
    /\ Len(log) = 2
    /\ log[2].seen = <<2020, 2022>>
    /\ emitted = <<"year_range_changed">>

(* C5: get_filtered_env_data, and get_filtered_tran_data when no filter   *)
(* is set, return the stored collection in its order for an empty          *)
(* selection; for a non-empty one exactly the entities whose name is in    *)
(* it, in collection order: none, and no error, if it names none.          *)
InCountries(c) == c.country_name \in Range(selected_countries)

InRegions(r) == r.region_name \in Range(selected_regions)

C5_SelectionNarrowsView ==
    /\ lastOp.name = "get_filtered_env_data" =>
           /\ outcome = "returned"
           /\ selected_countries = <<>> => ret = env_data
           /\ selected_countries # <<>> => ret = Matching(env_data, InCountries)
    /\ (lastOp.name = "get_filtered_tran_data" /\ DOMAIN data_filter = {}) =>
           /\ outcome = "returned"
           /\ selected_regions = <<>> => ret = tran_data
           /\ selected_regions # <<>> => ret = Matching(tran_data, InRegions)

C5_Witness ==
    /\ lastOp.name = "get_filtered_env_data"
    /\ selected_countries = <<"Atlantis">>
    /\ Len(env_data) = 3
    /\ ret = <<>>

(* C6 as claimed: for countries and for regions alike, the view holds      *)
(* exactly the entities that satisfy the selection and every key of the    *)
(* filter, the country code compared for equality with the filter value.   *)
ClaimedCountry(c) ==
    /\ selected_countries # <<>> => InCountries(c)
    /\ "country_code" \in DOMAIN data_filter =>
           c.country_code = data_filter["country_code"]

ClaimedRegion(r) ==
    /\ selected_regions # <<>> => InRegions(r)
    /\ "country_code" \in DOMAIN data_filter =>
           r.country_code = data_filter["country_code"]
    /\ "nuts_level" \in DOMAIN data_filter =>
           r.nuts_level = data_filter["nuts_level"]

C6_FilterNarrowsBothKinds ==
    /\ lastOp.name = "get_filtered_env_data" =>
           ret = Matching(env_data, ClaimedCountry)
    /\ lastOp.name = "get_filtered_tran_data" =>
           ret = Matching(tran_data, ClaimedRegion)

(* C6 as amended: get_filtered_tran_data returns, in collection order,     *)
(* exactly the regions that satisfy the selection (if non-empty) and every *)
(* key present in data_filter: country_code equal to the filter value      *)
(* upper-cased, nuts_level equal to the filter value, level 0 like any     *)
(* other; get_filtered_env_data is narrowed by the selection alone.        *)
KeptCountry(c) == selected_countries # <<>> => InCountries(c)

KeptRegion(r) ==
    /\ selected_regions # <<>> => InRegions(r)
    /\ "country_code" \in DOMAIN data_filter =>
           r.country_code = Upper(data_filter["country_code"])
    /\ "nuts_level" \in DOMAIN data_filter =>
           r.nuts_level = data_filter["nuts_level"]

C6_FilterNarrowsRegions ==
    /\ lastOp.name = "get_filtered_env_data" =>
           ret = Matching(env_data, KeptCountry)
    /\ lastOp.name = "get_filtered_tran_data" =>
           ret = Matching(tran_data, KeptRegion)

C6_Witness ==
    /\ lastOp.name = "get_filtered_tran_data"
    /\ selected_regions = <<"Polska", "Baden", "Deutschland">>
    /\ data_filter = [country_code |-> "DE", nuts_level |-> 0]
    /\ Len(tran_data) = 4
    /\ ret = <<Deutschland>>

(* C7: apply_filter(m) assigns: once it has returned, the active filter    *)
(* is m, whatever earlier calls had set.                                   *)
C7_ApplyFilterAssigns ==
    (lastOp.name = "apply_filter" /\ outcome = "returned") =>
        data_filter = lastOp.arg

(* C8: emptying a list that a view returned, or an object that a payload   *)
(* referred to, leaves every field of the manager as it was.               *)
C8_HeldReferencesLeaveFields ==
    lastOp.name = "holder_clears" => fields = lastOp.old

(* C9: for a range with start <= end, CountryAggregationStrategy.process  *)
(* echoes the years start..end in ascending order, and every value vector  *)
(* has end - start + 1 entries.                                            *)
C9_VectorLengthIsSpan ==
    (strategy = "country" /\ in_range[1] <= in_range[2]) =>
        LET span == in_range[2] - in_range[1] + 1
        IN  /\ Len(result.years) = span
            /\ \A i \in 1..span : result.years[i] = in_range[1] + i - 1
            /\ \A k \in 1..Len(result.values) : Len(result.values[k]) = span

C9_Witness ==
    /\ strategy = "country"
    /\ in_range = <<2018, 2019>>
    /\ Len(result.values) = 2
    /\ result.years = <<2018, 2019>>

(* C10: CountryAggregationStrategy.process includes an entity iff some     *)
(* year of the range has a positive value, in input order; its vector      *)
(* holds the series value of each year and 0 for a year without one, its   *)
(* total is the sum of the vector and its average the total divided by     *)
(* the number of positive years.                                           *)
HasPositiveYear(c) ==
    \E y \in in_range[1]..in_range[2] :
        y \in DOMAIN c.data_by_year /\ c.data_by_year[y] > 0

ValueIn(c, y) == IF y \in DOMAIN c.data_by_year THEN c.data_by_year[y] ELSE 0

RECURSIVE TotalOver(_, _, _)
TotalOver(c, from, to) ==
    IF from > to THEN 0 ELSE ValueIn(c, to) + TotalOver(c, from, to - 1)

C10_PositiveEntitiesAggregated ==
    strategy = "country" =>
        LET kept == Matching(in_data, HasPositiveYear)
        IN  /\ Len(result.countries) = Len(kept)
            /\ Len(result.values) = Len(kept)
            /\ Len(result.totals) = Len(kept)
            /\ Len(result.averages) = Len(kept)
            /\ \A k \in 1..Len(kept) :
                   /\ result.countries[k] = kept[k].country_name
                   /\ \A y \in in_range[1]..in_range[2] :
                          result.values[k][y - in_range[1] + 1]
                              = ValueIn(kept[k], y)
                   /\ result.totals[k]
                          = TotalOver(kept[k], in_range[1], in_range[2])
                   /\ result.averages[k]
                          = Quotient(result.totals[k],
                                Cardinality({y \in in_range[1]..in_range[2] :
                                                 ValueIn(kept[k], y) > 0}))

C10_Witness ==
    /\ strategy = "country"
    /\ in_range = <<2018, 2019>>
    /\ Len(in_data) = 2
    /\ in_data[1].data_by_year = (2018 :> 0 @@ 2019 :> -1)
    /\ DOMAIN in_data[2].data_by_year = {2019}
    /\ result.countries = <<"B">>
    /\ result.values = <<<<0, 1>>>>
    /\ result.totals = <<1>>
    /\ result.averages = <<Quotient(1, 1)>>

-----------------------------------------------------------------------------
(* The keys of TopNStrategy as the specification defines them: over the   *)
(* years of the range with a positive value.                              *)
RECURSIVE PositiveTotal(_, _, _)
PositiveTotal(c, from, to) ==
    IF from > to THEN 0
    ELSE (IF ValueIn(c, to) > 0 THEN ValueIn(c, to) ELSE 0)
             + PositiveTotal(c, from, to - 1)

PositiveCount(c) ==
    Cardinality({y \in in_range[1]..in_range[2] : ValueIn(c, y) > 0})

ClaimedKey(c, sort_key) ==
    CASE sort_key = "total" ->
             <<PositiveTotal(c, in_range[1], in_range[2]), 1>>
      [] sort_key = "average" ->
             <<PositiveTotal(c, in_range[1], in_range[2]), PositiveCount(c)>>
      [] sort_key = "latest" -> <<ValueIn(c, in_range[2]), 1>>

(* p > q and p = q for quotients with positive denominators *)
Greater(p, q) == p[1] * q[2] > q[1] * p[2]

Same(p, q) == p[1] * q[2] = q[1] * p[2]

TopNReturned ==
    /\ strategy = "top_n"
    /\ error = "none"
    /\ options.sort_by \in {"total", "average", "latest"}

(* C11: the result of TopNStrategy(n, sort_key).process is ordered         *)
(* non-increasingly by the chosen key (total, average, latest): the key    *)
(* of the entity at position i is at least the key at position i + 1.      *)
C11_TopNOrderedByKey ==
    TopNReturned =>
        \A i \in 1..(Len(result.items) - 1) :
            ~Greater(ClaimedKey(result.items[i + 1], options.sort_by),
                     ClaimedKey(result.items[i], options.sort_by))

C11_Witness ==
    /\ TopNReturned
    /\ options.sort_by = "total"
    /\ in_range = <<2018, 2019>>
    /\ Len(in_data) = 3
    /\ in_data[1].country_name = "A"
    /\ result.names = <<"E", "A", "D">>
    /\ result.totals = <<3, 2, 2>>

(* C12: for n >= 0, TopNStrategy(n, sort_key).process returns exactly the  *)
(* first min(n, k) entities of the stable descending order by sort_key,    *)
(* k being the number of entities with a positive value in the range:      *)
(* an entity's position is the number of entities with a larger key, or    *)
(* with an equal key and an earlier place in the input.                    *)
C12_TopNStableFirstN ==
    (TopNReturned /\ options.n >= 0) =>
        LET kept == Matching(in_data, HasPositiveYear)
            k == Len(kept)
            m == IF options.n < k THEN options.n ELSE k
            Key(i) == ClaimedKey(kept[i], options.sort_by)
            Before(i, j) == \/ Greater(Key(i), Key(j))
                            \/ Same(Key(i), Key(j)) /\ i < j
            Rank(j) == Cardinality({i \in 1..k : Before(i, j)})
        IN  /\ Len(result.items) = m
            /\ Len(result.names) = m
            /\ \A j \in 1..k :
                   Rank(j) < m =>
                       /\ result.items[Rank(j) + 1] = kept[j]
                       /\ result.names[Rank(j) + 1] = NameOf(kept[j])

C12_Witness ==
    /\ TopNReturned
    /\ options.sort_by = "total"
    /\ options.n = 2
    /\ in_range = <<2018, 2019>>
    /\ Len(in_data) = 3
    /\ in_data[3].country_name = "A"
    /\ result.names = <<"D", "B">>
    /\ result.totals = <<2, 2>>

(* C13: an invalid TopNStrategy parameter (a sort_key outside total,       *)
(* average, latest, or a negative n) produces an error and never a         *)
(* result, for every entity collection, the empty one included.            *)
C13_InvalidParameterFailsFast ==
    (/\ strategy = "top_n"
     /\ \/ options.sort_by \notin {"total", "average", "latest"}
        \/ options.n < 0)
        => error # "none"

(* C14: with an empty year range (end < start) each of the three           *)
(* strategies returns a result without entities (no names, values,         *)
(* totals, averages, years) and raises nothing.                            *)
C14_EmptyRangeEmptyResult ==
    (strategy # "none" /\ in_range[2] < in_range[1]) =>
        /\ error = "none"
        /\ result.years = <<>>
        /\ result.values = <<>>
        /\ result.totals = <<>>
        /\ result.averages = <<>>
        /\ strategy = "country" => result.countries = <<>>
        /\ strategy = "region" =>
               /\ result.regions = <<>>
               /\ result.country_codes = <<>>
               /\ result.nuts_levels = <<>>
        /\ strategy = "top_n" =>
               /\ result.names = <<>>
               /\ result.items = <<>>

C14_Witness ==
    /\ strategy = "region"
    /\ in_range = <<2019, 2018>>
    /\ Len(in_data) = 3
    /\ options.nuts_level = <<>>
    /\ ~Truthy(options.country_filter)
    /\ result.regions = <<>>
    /\ result.years = <<>>

(* The rows RegionAggregationStrategy returns, given which regions the    *)
(* filter arguments admit.                                                *)
RegionRowsAre(Admitted(_)) ==
    LET Wanted(r) == Admitted(r) /\ HasPositiveYear(r)
        kept == Matching(in_data, Wanted)
    IN  /\ Len(result.regions) = Len(kept)
        /\ Len(result.country_codes) = Len(kept)
        /\ Len(result.nuts_levels) = Len(kept)
        /\ \A k \in 1..Len(kept) :
               /\ result.regions[k] = kept[k].region_name
               /\ result.country_codes[k] = kept[k].country_code
               /\ result.nuts_levels[k] = kept[k].nuts_level

LevelAdmits(r) ==
    options.nuts_level # <<>> => r.nuts_level = options.nuts_level[1]

(* C15, as claimed: with country_filter = c only regions whose            *)
(* country_code equals c are returned, with nuts_level = l (0 included)   *)
(* only regions of that level, with both only regions matching both,      *)
(* with no filter every region with a positive value in the range; each   *)
(* row carries its region's own country_code and nuts_level.              *)
ClaimedRegionAdmitted(r) ==
    /\ options.country_filter # <<>> =>
           r.country_code = options.country_filter[1]
    /\ LevelAdmits(r)

C15_RegionFilterEqualsArgument ==
    strategy = "region" => RegionRowsAre(ClaimedRegionAdmitted)

(* C15, amended: a country_filter that is None or the empty string does   *)
(* not narrow; any other is upper-cased before it is compared with the    *)
(* region's country_code.  The rest is as claimed.                        *)
RegionAdmitted(r) ==
    /\ (options.country_filter # <<>> /\ options.country_filter[1] # "") =>
           r.country_code = Upper(options.country_filter[1])
    /\ LevelAdmits(r)

C15_RegionFilterUpperCased ==
    strategy = "region" => RegionRowsAre(RegionAdmitted)

C15_Witness ==
    /\ strategy = "region"
    /\ options.country_filter = <<"pl">>
    /\ options.nuts_level = <<0>>
    /\ in_range = <<2018, 2019>>
    /\ Len(in_data) = 3
    /\ in_data[1].region_name = "Baden"
    /\ result.regions = <<"Polska">>
    /\ result.country_codes = <<"PL">>
    /\ result.nuts_levels = <<0>>

-----------------------------------------------------------------------------
(* The rows of the sheet a loader turns into entities: those with a name  *)
(* and a value the loader stores in one of the columns it reads.          *)
RowIsKept(row) ==
    /\ ~NameIsBlank(row.name)
    /\ \E i \in 1..Len(HeaderYears(sheet.header, 1)) :
           /\ i <= Len(row.cells)
           /\ CellValue(row.cells[i],
                        IF loader = "environmental" THEN "i" ELSE ":",
                        loader = "transport") # <<>>

KeptRows == Matching(sheet.rows, RowIsKept)

(* C16: a country sheet with the one data row "Testland" and the values    *)
(* 2018: 100, 2019: 0, 2020: 50 parses to exactly one entity with the      *)
(* series {2018: 100, 2020: 50}, and CountryAggregationStrategy.process    *)
(* on it over (2018, 2020) gives the values [100, 0, 50], the total 150    *)
(* and the average 75.                                                     *)
TestlandSheet ==
    /\ sheet.header = <<Number(2018), Number(2019), Number(2020)>>
    /\ Len(sheet.rows) = 1
    /\ sheet.rows[1].name = Text(Testland)
    /\ sheet.rows[1].cells = <<Number(100), Number(0), Number(50)>>

C16_TestlandRoundTrip ==
    (TestlandSheet /\ loader = "environmental") =>
        /\ Len(in_data) = 1
        /\ in_data[1].country_name = Testland
        /\ DOMAIN in_data[1].data_by_year = {2018, 2020}
        /\ in_data[1].data_by_year[2018] = 100
        /\ in_data[1].data_by_year[2020] = 50
        /\ strategy = "country" =>
               /\ result.countries = <<Testland>>
               /\ result.values = <<<<100, 0, 50>>>>
               /\ result.totals = <<150>>
               /\ Len(result.averages) = 1
               /\ result.averages[1][1] = 75 * result.averages[1][2]

C16_Witness ==
    /\ TestlandSheet
    /\ loader = "environmental"
    /\ strategy = "country"
    /\ in_range = <<2018, 2020>>
    /\ result.totals = <<150>>

(* C17, as claimed: every entity emitted by either parser has a series     *)
(* of strictly positive values only.                                       *)
C17_SeriesStrictlyPositive ==
    loader # "none" =>
        \A k \in 1..Len(in_data) :
            \A y \in DOMAIN in_data[k].data_by_year :
                in_data[k].data_by_year[y] > 0

(* C17, amended: the series of a country entity holds strictly positive    *)
(* values only; the series of a region entity holds non-negative values    *)
(* only, a zero cell being stored.  Negative values are never stored.      *)
C17_SeriesSignPerLoader ==
    loader # "none" =>
        \A k \in 1..Len(in_data) :
            \A y \in DOMAIN in_data[k].data_by_year :
                /\ in_data[k].data_by_year[y] >= 0
                /\ loader = "environmental" =>
                       in_data[k].data_by_year[y] > 0

C17_Witness ==
    /\ loader = "transport"
    /\ sheet.header = <<Number(2018), Number(2019), Number(2020)>>
    /\ Len(sheet.rows) = 1
    /\ sheet.rows[1].cells = <<Number(0), Text(<<" ">>), Text(<<"-", "1">>)>>
    /\ Len(in_data) = 1
    /\ DOMAIN in_data[1].data_by_year = {2018}
    /\ in_data[1].data_by_year[2018] = 0

(* C18: no entity a parser emits has an empty series: a row without a      *)
(* value the loader stores (all cells blank, unparseable or the missing    *)
(* sentinel) produces no entity, and the other named rows are emitted in   *)
(* row order.                                                              *)
C18_NoEmptySeries ==
    loader # "none" =>
        /\ \A k \in 1..Len(in_data) : DOMAIN in_data[k].data_by_year # {}
        /\ Len(in_data) = Len(KeptRows)
        /\ \A k \in 1..Len(KeptRows) :
               NameOf(in_data[k]) = strip(str(KeptRows[k].name))

C18_Witness ==
    /\ loader = "transport"
    /\ Len(sheet.rows) = 2
    /\ sheet.rows[1].cells = <<Text(<<"i">>), Text(<<":">>), NaN>>
    /\ sheet.rows[1].name = Text(<<"C", "d">>)
    /\ Len(in_data) = 1
    /\ in_data[1].region_name = <<"G", "h">>

(* C19, as claimed: the nuts_level of every region entity is the length    *)
(* rule applied to its stored region_code: 2 -> 0, 3 -> 1, 4 -> 2, any     *)
(* other length -> 3.                                                      *)
LengthRule(code) ==
    CASE Len(code) = 2 -> 0
      [] Len(code) = 3 -> 1
      [] Len(code) = 4 -> 2
      [] OTHER -> 3

C19_LevelIsLengthRule ==
    loader = "transport" =>
        \A k \in 1..Len(in_data) :
            in_data[k].nuts_level = LengthRule(in_data[k].region_code)

(* C19, amended: the nuts_level is a function of the stored region_code:   *)
(* 0 for the empty code and for the placeholder "UNKNOWN" stored when      *)
(* the code cell is absent, the length rule for every other code.          *)
C19_LevelIsLengthRuleOfKnownCode ==
    loader = "transport" =>
        \A k \in 1..Len(in_data) :
            in_data[k].nuts_level =
                IF in_data[k].region_code \in
                       {<<>>, <<"U", "N", "K", "N", "O", "W", "N">>}
                THEN 0
                ELSE LengthRule(in_data[k].region_code)

C19_Witness ==
    /\ loader = "transport"
    /\ Len(in_data) = 2
    /\ in_data[1].region_code = <<"U", "N", "K", "N", "O", "W", "N">>
    /\ in_data[1].nuts_level = 0
    /\ in_data[2].region_code = <<"P", "L", "1", "2">>
    /\ in_data[2].nuts_level = 2

(* C20: the country_code of every region entity is the first two           *)
(* characters of the row's code, upper-cased, when the code cell is        *)
(* present, and one and the same "unknown" code whenever the code cell     *)
(* is absent or blank.                                                     *)
CodeIsMissing(row) == ~notna(row.code) \/ strip(str(row.code)) = <<>>

FirstTwo(chars) == SubSeq(chars, 1, IF Len(chars) < 2 THEN Len(chars) ELSE 2)

C20_CountryCodeFromRowCode ==
    (loader = "transport" /\ Len(in_data) = Len(KeptRows)) =>
        /\ \A k \in 1..Len(in_data) :
               ~CodeIsMissing(KeptRows[k]) /\
               Len(strip(str(KeptRows[k].code))) >= 2 =>
                   in_data[k].country_code
                       = upper(FirstTwo(strip(str(KeptRows[k].code))))
        /\ \A j, k \in 1..Len(in_data) :
               (CodeIsMissing(KeptRows[j]) /\ CodeIsMissing(KeptRows[k])) =>
                   in_data[j].country_code = in_data[k].country_code

-----------------------------------------------------------------------------
(* C21: load on a path without a file, or on a grid that raises while it  *)
(* is parsed (no header row), returns the empty list and raises nothing;  *)
(* load of a workbook returns, whatever its rows hold.                    *)
C21_FailedLoadReturnsEmpty ==
    (loaded # "none") =>
        /\ (file.state \in {"missing", "short"}) =>
               (loaded = "returned" /\ in_data = <<>>)
        /\ (file.state = "workbook") => loaded = "returned"

C21_Witness ==
    /\ created = "EnvironmentalDataLoader"
    /\ file.state = "short"
    /\ loaded = "returned"
    /\ in_data = <<>>

(* C22: load of a file that is not a readable workbook raises LoadError   *)
(* to its caller and does not return the empty list.                      *)
C22_CorruptFileRaisesLoadError ==
    (loaded # "none" /\ file.state = "corrupt") => loaded = "LoadError"

(* The name `type` is the alias `alias`, case and surrounding blanks aside *)
Names(type, alias) == lower(strip(type)) = lower(alias)

(* C23: create_loader returns an EnvironmentalDataLoader for a name that  *)
(* is an environmental alias, a TransportDataLoader for one that is a     *)
(* transport alias, case and surrounding whitespace ignored; it accepts   *)
(* every name of get_available_types(), and raises ValueError for every   *)
(* other name.                                                            *)
C23_FactoryAcceptsEveryAlias ==
    (created # "none") =>
        /\ (\E a \in environmental_aliases : Names(data_type, a)) =>
               created = "EnvironmentalDataLoader"
        /\ (\E a \in transport_aliases : Names(data_type, a)) =>
               created = "TransportDataLoader"
        /\ (\E k \in 1..Len(get_available_types) :
                data_type = get_available_types[k]) =>
               created \in {"EnvironmentalDataLoader", "TransportDataLoader"}
        /\ (\A a \in environmental_aliases \cup transport_aliases :
                ~Names(data_type, a)) =>
               created = "ValueError"

-----------------------------------------------------------------------------
(* The entities a result describes, in the order of its lists *)
Described ==
    LET Shown(r) == RegionAdmitted(r) /\ HasPositiveYear(r)
    IN  CASE strategy = "country" -> Matching(in_data, HasPositiveYear)
          [] strategy = "region" -> Matching(in_data, Shown)
          [] strategy = "top_n" -> result.items

ResultNames ==
    CASE strategy = "country" -> result.countries
      [] strategy = "region" -> result.regions
      [] strategy = "top_n" -> result.names

(* C24: in every result of the three strategies the lists of names,       *)
(* values, totals and averages (and country_codes and nuts_levels of the  *)
(* region strategy) have one length, position i of each of them is about  *)
(* the same entity, and every value vector has one entry per year of the  *)
(* echoed year list, 0 for a year without a value.                        *)
C24_ListsAlignedAndDense ==
    (strategy # "none" /\ error = "none") =>
        LET n == Len(Described)
        IN  /\ Len(ResultNames) = n
            /\ Len(result.values) = n
            /\ Len(result.totals) = n
            /\ Len(result.averages) = n
            /\ strategy = "region" =>
                   /\ Len(result.country_codes) = n
                   /\ Len(result.nuts_levels) = n
            /\ \A i \in 1..n :
                   LET e == Described[i]
                   IN  /\ ResultNames[i] = NameOf(e)
                       /\ Len(result.values[i]) = Len(result.years)
                       /\ \A k \in 1..Len(result.years) :
                              result.values[i][k] = ValueIn(e, result.years[k])
                       /\ result.totals[i]
                              = IF strategy = "top_n"
                                THEN PositiveTotal(e, in_range[1], in_range[2])
                                ELSE TotalOver(e, in_range[1], in_range[2])
                       /\ result.averages[i]
                              = Quotient(result.totals[i], PositiveCount(e))
                       /\ strategy = "region" =>
                              /\ result.country_codes[i] = e.country_code
                              /\ result.nuts_levels[i] = e.nuts_level

C24_Witness ==
    /\ strategy = "top_n"
    /\ error = "none"
    /\ in_range = <<2018, 2019>>
    /\ Len(in_data) = 3
    /\ Len(result.names) = 3
    /\ result.names[1] # NameOf(in_data[1])
    /\ \E i \in 1..3 : result.values[i][2] = 0 /\ result.totals[i] > 0

-----------------------------------------------------------------------------
(* The year the header cell of value column c holds, <<>> if it holds none *)
YearAt(c) == HeaderYears(<<sheet.header[c]>>, 1)

(* What the loader that ran stores for a cell *)
StoredValue(cell) ==
    CellValue(cell, IF loader = "environmental" THEN "i" ELSE ":",
              loader = "transport")

(* C25: a year found at header column c is paired with column c: what an  *)
(* entity stores for the year is the value of its row in a column whose   *)
(* header holds that year, and for a year the header holds once the       *)
(* entity stores a value iff that column holds one; a header cell that is *)
(* blank or holds no year in 2000..2030 shifts nothing.                   *)
C25_YearReadsItsOwnColumn ==
    (loader # "none" /\ Len(in_data) = Len(KeptRows)) =>
        \A k \in 1..Len(in_data) :
            LET series == in_data[k].data_by_year
                cells == KeptRows[k].cells
                Columns(y) == {c \in 1..Len(sheet.header) : YearAt(c) = <<y>>}
            IN  /\ \A y \in DOMAIN series :
                       \E c \in Columns(y) :
                           StoredValue(cells[c]) = <<series[y]>>
                /\ \A c \in 1..Len(sheet.header) :
                       (YearAt(c) # <<>> /\ Columns(YearAt(c)[1]) = {c}) =>
                           (StoredValue(cells[c]) # <<>>
                                <=> YearAt(c)[1] \in DOMAIN series)

-----------------------------------------------------------------------------
NonNegative(data) ==
    \A i \in 1..Len(data) :
        \A y \in DOMAIN data[i].data_by_year : data[i].data_by_year[y] >= 0

Injective(p) == \A i, j \in DOMAIN p : p[i] = p[j] => i = j

(* C30: on entities whose series hold no negative value, and for every    *)
(* year range, TopNStrategy with n at least the number of entities        *)
(* returns the entities CountryAggregationStrategy returns, each with the *)
(* same total, the same average and the same value vector; only the order *)
(* of the entities may differ.                                            *)
C30_TopNMatchesCountryAggregation ==
    (/\ strategy = "top_n"
     /\ error = "none"
     /\ options.n >= Len(in_data)
     /\ NonNegative(in_data)) =>
        LET country == CountryAggregationStrategy_process(in_data, in_range)
            n == Len(country.countries)
        IN  /\ Len(result.names) = n
            /\ result.years = country.years
            /\ \E p \in [1..n -> 1..n] :
                   /\ Injective(p)
                   /\ \A i \in 1..n :
                          /\ result.names[i] = country.countries[p[i]]
                          /\ result.values[i] = country.values[p[i]]
                          /\ result.totals[i] = country.totals[p[i]]
                          /\ result.averages[i] = country.averages[p[i]]

C30_Witness ==
    /\ strategy = "top_n"
    /\ error = "none"
    /\ options.n = 2
    /\ Len(in_data) = 2
    /\ NonNegative(in_data)
    /\ in_range = <<2018, 2019>>
    /\ result.names = <<"B", "A">>
    /\ result.values = <<<<1, 1>>, <<0, 1>>>>
    /\ result.averages = <<Quotient(2, 2), Quotient(1, 1)>>
    /\ CountryAggregationStrategy_process(in_data, in_range).countries
           = <<"A", "B">>

-----------------------------------------------------------------------------
(* C27: when listeners call mutators from inside their callbacks, every   *)
(* listener still receives the events in the order the changes were made: *)
(* a listener receives a nested event only after the outer event, and the *)
(* value the outer event announces is the value of the field when the     *)
(* event is delivered.                                                    *)
C27_NestedEventAfterOuter ==
    (/\ lastOp.name \in Mutators
     /\ \A i \in 1..Len(log) : log[i].did[1] \in {"none", "call"}) =>
        /\ \A j \in 1..Len(log) :
               log[j].depth > 1 =>
                   \E i \in 1..(j - 1) :
                       log[i].to = log[j].to /\ log[i].depth = 1
        /\ \A j \in 1..Len(log) :
               log[j].depth = 1 => log[j].seen = NewValue(lastOp)

-----------------------------------------------------------------------------
(* C26: every mutator call runs to completion: a call that is running     *)
(* returns, also when the listeners it notifies attach new listeners from *)
(* inside their callbacks and each new listener does the same.            *)
C26_MutatorCallReturns ==
    (outcome = "running") ~> (outcome = "returned")

-----------------------------------------------------------------------------
Registered == {component_observers[c] : c \in DOMAIN component_observers}

(* C28: after any register_component / unregister_component calls the     *)
(* listeners the bridge has attached are exactly the values of            *)
(* component_observers (one attached listener for a name registered       *)
(* twice), and a notification reaches no listener created for a name that *)
(* is not registered any more.                                            *)
C28_BridgeListenersAreRegistry ==
    /\ Range(observers) = Registered
    /\ lastOp.name \in Mutators =>
           \A i \in 1..Len(log) :
               log[i].to.component_name \in DOMAIN component_observers

-----------------------------------------------------------------------------
(* C29: a mutator is all-or-nothing: when a client's call raises, the     *)
(* field the mutator assigns is as it was before the call; when it has    *)
(* returned, the field holds the new value and every listener registered  *)
(* at the call was notified.                                              *)
C29_MutatorAllOrNothing ==
    lastOp.name \in Mutators =>
        /\ outcome = "raised" =>
               FieldOf(EventOf(lastOp.name)) = lastOp.old
        /\ outcome = "returned" =>
               /\ FieldOf(EventOf(lastOp.name)) = NewValue(lastOp)
               /\ Deliveries = snapshot

=============================================================================
